---- MODULE Spec2Model ----
(***************************************************************************)
(* Model of the dga_lab_v2 processes: attacker_v2 (set rotation and the    *)
(* catch_all match engine), defender_v2 (classifier and block list) and    *)
(* victim_v2 (label generation).                                           *)
(*                                                                         *)
(* Strings the code inspects character by character (domains, labels,      *)
(* class labels, verdicts) are sequences of one-character strings, so that *)
(* strip(), lower(), upper(), split() and rsplit() are computed and not    *)
(* assumed.  Tags that the code only compares as a whole (program          *)
(* counters, log classes, source tags) are plain strings.                  *)
(***************************************************************************)
EXTENDS Integers, Sequences, FiniteSets, TLC

(***************************************************************************)
(* Bounds of the model.  The configuration values of the programs are      *)
(* scaled down; the source values are given in the comments.               *)
(***************************************************************************)
\* attacker_v2.py:28 and victim_v2.py:24 set SET_SIZE = 10
SET_SIZE == 3
\* attacker_v2.py:29 sets ACTIVE_PER_SET = 5
ACTIVE_PER_SET == 2
\* attacker_v2.py:30 and victim_v2.py:25 set DELAY_SECONDS = 50
DELAY_SECONDS == 1
\* attacker_v2.py:31 sets LABEL_LENGTH = 12 (victim_v2.py:54 defaults to 12)
LABEL_LENGTH == 2
\* length of the base32 text of a digest (52 for sha256), > LABEL_LENGTH
DigestLen == 3
\* the clock's minute bucket runs over 0..MaxMinute
MaxMinute == 1
\* the rotation loop generates at most MaxSets sets
MaxSets == 2
\* a leaf of the fitted tree holds at most MaxLeaf training samples
MaxLeaf == 3
\* defende_v2.py:38 sets MAX_RECENT = 200
MAX_RECENT == 2
\* defende_v2.py:87 keeps the last 1000 records in queries.json
PersistedCap == 2
\* the defender serves at most MaxChecks well-formed /check requests
MaxChecks == 3
\* a minute has 60 seconds; a minute of the model has SecondsPerMinute
SecondsPerMinute == 2
\* the victim's clock runs over 0..MaxTime seconds
MaxTime == 3
\* the requests made for one set are followed for MaxElapsed half seconds
MaxElapsed == 2

(***************************************************************************)
(* Characters and strings                                                  *)
(***************************************************************************)
UpperChars ==
    <<"A","B","C","D","E","F","G","H","I","J","K","L","M",
      "N","O","P","Q","R","S","T","U","V","W","X","Y","Z">>

LowerChars ==
    <<"a","b","c","d","e","f","g","h","i","j","k","l","m",
      "n","o","p","q","r","s","t","u","v","w","x","y","z">>

Digits == {"0","1","2","3","4","5","6","7","8","9"}

Whitespace == {" ", "\t"}

\* upper-case letter |-> lower-case letter
ToLower ==
    [c \in {UpperChars[i] : i \in 1..Len(UpperChars)} |->
        LowerChars[CHOOSE i \in 1..Len(UpperChars) : UpperChars[i] = c]]

\* lower-case letter |-> upper-case letter
ToUpper ==
    [c \in {LowerChars[i] : i \in 1..Len(LowerChars)} |->
        UpperChars[CHOOSE i \in 1..Len(LowerChars) : LowerChars[i] = c]]

\* str.lower() on one character
LowerChar(c) == IF c \in DOMAIN ToLower THEN ToLower[c] ELSE c

\* str.upper() on one character
UpperChar(c) == IF c \in DOMAIN ToUpper THEN ToUpper[c] ELSE c

\* str.lower()
StrLower(s) == [i \in 1..Len(s) |-> LowerChar(s[i])]

\* str.upper()
StrUpper(s) == [i \in 1..Len(s) |-> UpperChar(s[i])]

\* str.strip(): leading and trailing whitespace removed
StrStrip(s) ==
    LET keep == {i \in 1..Len(s) : s[i] \notin Whitespace}
    IN  IF keep = {} THEN <<>>
        ELSE LET lo == CHOOSE i \in keep : \A j \in keep : i <= j
                 hi == CHOOSE i \in keep : \A j \in keep : j <= i
             IN  SubSeq(s, lo, hi)

\* c in s
Contains(s, c) == \E i \in 1..Len(s) : s[i] = c

\* s.split(c)[0]: the text before the first c, or s when c does not occur
SplitFirst(s, c) ==
    IF Contains(s, c)
    THEN LET k == CHOOSE i \in 1..Len(s) :
                      s[i] = c /\ \A j \in 1..(i - 1) : s[j] # c
         IN  SubSeq(s, 1, k - 1)
    ELSE s

\* s.rsplit(c, 1)[0]: the text before the last c (s must contain c)
RSplitHead(s, c) ==
    LET k == CHOOSE i \in 1..Len(s) :
                 s[i] = c /\ \A j \in (i + 1)..Len(s) : s[j] # c
    IN  SubSeq(s, 1, k - 1)

Range(s) == {s[i] : i \in 1..Len(s)}

Min(a, b) == IF a <= b THEN a ELSE b

(***************************************************************************)
(* Program constants                                                       *)
(***************************************************************************)
GoogleCom == <<"g","o","o","g","l","e",".","c","o","m">>
MicrosoftCom == <<"m","i","c","r","o","s","o","f","t",".","c","o","m">>
FacebookCom == <<"f","a","c","e","b","o","o","k",".","c","o","m">>

ALLOWED_DOMAINS == {GoogleCom, MicrosoftCom, FacebookCom}

TLD_LIST ==
    << <<".","c","o","m">>, <<".","n","e","t">>, <<".","x","y","z">>,
       <<".","t","o","p">>, <<".","s","i","t","e">>,
       <<".","o","n","l","i","n","e">>, <<".","c","l","u","b">>,
       <<".","t","k">>, <<".","p","w">>, <<".","c","c">> >>

(***************************************************************************)
(* The DGA label generator (the same code in attacker and victim)          *)
(***************************************************************************)
\* The base32 alphabet is a..z, 2..7; the model draws from five symbols.
B32Alphabet == <<"a", "b", "c", "2", "3">>

\* sha256 of "seed:timestamp:index", base32-encoded, lower-cased, padding
\* removed: an arbitrary but fixed function of its input.  The model takes
\* a fixed arithmetic mixing of (timestamp, index), which collides: in
\* minute 1 the indices 1 and 2 give the same label.
B32Digest(timestamp, index) ==
    [k \in 1..DigestLen |->
        B32Alphabet[((timestamp * 7 + index * (k + 1) + (index \div 2) * k
                          + k * k) % Len(B32Alphabet)) + 1]]

\* generate_domain_label: truncate to label_length, force a leading letter
generate_domain_label(timestamp, index) ==
    LET b32 == B32Digest(timestamp, index)
        label == SubSeq(b32, 1, Min(LABEL_LENGTH, Len(b32)))
    IN  IF label # <<>> /\ label[1] \in Digits
        THEN <<"a">> \o SubSeq(label, 2, Len(label))
        ELSE label

\* the while loop of generate_set: collect SET_SIZE distinct labels
RECURSIVE CollectLabels(_, _, _)
CollectLabels(timestamp, labelsSoFar, i) ==
    IF Len(labelsSoFar) >= SET_SIZE THEN labelsSoFar
    ELSE LET label == generate_domain_label(timestamp, i)
         IN  IF label \notin Range(labelsSoFar)
             THEN CollectLabels(timestamp, Append(labelsSoFar, label), i + 1)
             ELSE CollectLabels(timestamp, labelsSoFar, i + 1)

\* attacker generate_set: the labels of the minute bucket of set_time
generate_set(timestamp) == CollectLabels(timestamp, <<>>, 0)


(***************************************************************************)
(* State                                                                   *)
(***************************************************************************)
VARIABLES
    \* ---- attacker_v2 ----
    minute,            \* the UTC minute bucket of time.time()
    stop_event,        \* threading.Event of main()
    rot_pc,            \* position of rotate_sets_loop
    labels,            \* local of rotate_sets_loop
    active,            \* local of rotate_sets_loop
    set_index,         \* local of rotate_sets_loop
    slept,             \* local of rotate_sets_loop, in half seconds
    current_labels,    \* global list
    current_active,    \* global set
    state_lock,        \* "free", or the function holding it
    last_published,    \* history: the (labels, active) pair last published
    h_pc,              \* position of the catch_all call
    requested_domain,  \* local of catch_all
    h_label,           \* local `label` of catch_all
    labels_snapshot,   \* local of catch_all
    active_snapshot,   \* local of catch_all
    response,          \* what catch_all returned: [status, body]
    log_kind,          \* the class of the line catch_all logged
    h_seen,            \* history: last_published when catch_all took the lock
    \* ---- defender_v2 ----
    manual_block,      \* global set of blocked domains
    blocked_file,      \* blocked.json: its JSON array, length and validity
    model,             \* global: NoModel, or the fitted tree and its columns
    c_pc,              \* position of the classify_domain call
    c_arg,             \* argument `domain` of classify_domain as passed
    c_domain,          \* local `domain` of classify_domain
    c_clf,             \* local `clf` of classify_domain
    c_pred,            \* local `pred` of classify_domain
    c_result,          \* the tuple classify_domain returned
    c_block_seen,      \* history: manual_block when the call tested it
    c_model_none,      \* history: model was None when the call looked at it
    c_fault,           \* history: which call raised inside the try block
    last_op,           \* history: the last block-list request completed
                       \* for each domain
    load_state,        \* how the last load_and_train call ended
    blockers,          \* the block-list handlers: position and locals
    recent_queries,    \* global list of records
    recent_lock,       \* "free", or the handler holding it
    queries_file,      \* content of queries.json: the list it loads to
    checks,            \* the api_check handlers: position and locals
    appended,          \* history: every record appended to recent_queries
    listing,           \* what the last api_queries call returned
    \* ---- victim_v2 ----
    v_now,             \* time.time(), in seconds
    v_stop,            \* threading.Event of main()
    v_pc,              \* position of dga_generation_loop
    v_set_index,       \* local of dga_generation_loop
    v_set_time,        \* local of dga_generation_loop
    v_domains,         \* local of dga_generation_loop
    v_next,            \* position of `for d in domains`
    v_slept,           \* local total_sleep, in half seconds
    v_elapsed,         \* history: half seconds since the set was generated
    hd,                \* the handle_domain call: position and locals
    \* ---- calls and processes followed on their own ----
    fx,                \* the extract_features_from_domain call and the
                       \* call before it
    health,            \* the /health call of attacker_v2
    model_lock,        \* defender_v2: "free", or the function holding it
    lt,                \* the load_and_train call: position and locals
    entry              \* each process: how far its entry point has come

attackerVars ==
    <<minute, stop_event, rot_pc, labels, active, set_index, slept,
      current_labels, current_active, state_lock, last_published, h_pc,
      requested_domain, h_label, labels_snapshot, active_snapshot, response,
      log_kind, h_seen>>

defenderVars ==
    <<manual_block, blocked_file, model, c_pc, c_arg, c_domain, c_clf, c_pred,
      c_result, c_block_seen, c_model_none, c_fault, last_op,
      load_state>>

\* the handlers of defender_v2 that write the block list and the query log
serviceVars ==
    <<blockers, recent_queries, recent_lock, queries_file,
      checks, appended, listing>>

victimVars ==
    <<v_now, v_stop, v_pc, v_set_index, v_set_time, v_domains, v_next,
      v_slept, v_elapsed, hd>>

extraVars == <<fx, health, model_lock, lt, entry>>

Processes == {"attacker_v2", "victim_v2", "defender_v2"}

\* the entry point of a process: not started, inside its main code, or
\* left because of a failure: whether an except clause of the entry point
\* caught it, whether log() recorded it, and the exit status
NotStarted ==
    [pc |-> "not_started", caught |-> FALSE, logged |-> FALSE, status |-> 0]

Running == [NotStarted EXCEPT !.pc = "main"]

\* attacker lines 196-198, victim lines 209-211: except Exception, log,
\* sys.exit(1)
CaughtExit ==
    [pc |-> "failed", caught |-> TRUE, logged |-> TRUE, status |-> 1]

\* no except clause: the interpreter prints the traceback and exits with 1
UncaughtExit ==
    [pc |-> "failed", caught |-> FALSE, logged |-> FALSE, status |-> 1]

vars == <<attackerVars, defenderVars, serviceVars, victimVars, extraVars>>

NoResponse == [status |-> 0, body |-> <<>>]

\* current_labels and current_active as the module sets them (lines 86-87)
InitialPair == <<<<>>, {}>>

(***************************************************************************)
(* defender_v2: classifier and block list                                  *)
(***************************************************************************)
DGA == <<"D","G","A">>
NOT_DGA == <<"N","O","T","_","D","G","A">>
UNKNOWN == <<"U","N","K","N","O","W","N">>

\* A confidence is a fraction <<k, n>> (a leaf of the tree holds k samples of
\* the predicted class among n); 1.0 and 0.0 are One and Zero.
One == <<1, 1>>
Zero == <<0, 1>>

\* the probabilities predict_proba can give for the predicted class
Probabilities ==
    {One} \cup {pr \in (1..MaxLeaf) \X (2..MaxLeaf) : pr[1] < pr[2]}

\* model = None
NoModel == [loaded |-> FALSE, classes |-> {}, n_features |-> 0]

\* the length of the vector extract_features_from_domain returns
FeatureCount == 8

\* Class labels of a training CSV: numbers, or strings.
NumClass(n) == <<"num", n>>
StrClass(s) == <<"str", s>>

ClassSets ==
    {{NumClass(0), NumClass(1)},
     {StrClass(<<"d","g","a">>), StrClass(<<"n","o","t","_","d","g","a">>)},
     {StrClass(<<"b","e","n","i","g","n">>), StrClass(<<"b","a","d">>)}}

\* What load_and_train can find at csv_path: no file, a file that read_csv
\* or fit rejects, a file without a 'label' column, or a data set with its
\* class labels and its number of numeric feature columns (tld_id dropped).
CsvInputs ==
    {[kind |-> k, classes |-> {}, n_features |-> 0] :
        k \in {"missing", "unreadable", "no_label"}}
    \cup {[kind |-> "ok", classes |-> cs, n_features |-> n] :
            cs \in ClassSets, n \in {FeatureCount, FeatureCount + 1}}

\* load_and_train: the value of `model` it leaves
TrainedModel(csv) ==
    IF csv.kind = "ok"
    THEN [loaded |-> TRUE, classes |-> csv.classes,
          n_features |-> csv.n_features]
    ELSE NoModel

\* lines 179 / 270 / 281: domain.strip().lower()
NormalizeDomain(domain) == StrLower(StrStrip(domain))

\* the domains the model passes to the defender
DefenderDomains ==
    {<<"e","v",".","i","o">>, <<"E","v",".","I","O">>,
     <<" ","e","v",".","i","o","\t">>, <<"o","k",".","i","o">>}

BlockableDomains == {NormalizeDomain(d) : d \in DefenderDomains}

\* lines 200-204: the verdict of a predicted class
VerdictOfClass(pred) ==
    IF pred[1] = "num"
    THEN (IF pred[2] = 1 THEN DGA ELSE NOT_DGA)
    ELSE StrUpper(pred[2])

\* the globals of defender_v2 that classify_domain reads, and their history
defenderGlobals == <<manual_block, blocked_file, model, last_op, load_state>>

classifyLocals ==
    <<c_pc, c_arg, c_domain, c_clf, c_pred, c_result, c_block_seen,
      c_model_none, c_fault>>

NoResult == <<<<>>, Zero, "none">>

\* the block list consulted only when no model is loaded
ClassifyCheckBlockAfterModel(domain) ==
    /\ c_pc = "idle"
    /\ c_arg' = domain
    /\ c_domain' = NormalizeDomain(domain)
    /\ c_block_seen' = manual_block
    /\ c_model_none' = (model = NoModel)
    /\ IF model = NoModel /\ c_domain' \in manual_block
       THEN /\ c_result' = <<DGA, One, "manual_block">>
            /\ c_pc' = "done"
       ELSE /\ c_result' = c_result
            /\ c_pc' = "read_model"
    /\ UNCHANGED <<defenderGlobals, c_clf, c_pred, c_fault>>
    /\ UNCHANGED <<attackerVars, serviceVars, victimVars, extraVars>>

\* lines 179-183: classify_domain is called; the block list decides first
ClassifyCheckBlock(domain) ==
    /\ c_pc = "idle"
    /\ c_arg' = domain
    /\ c_domain' = NormalizeDomain(domain)
    /\ c_block_seen' = manual_block
    /\ c_model_none' = (model = NoModel)
    /\ IF c_domain' \in manual_block
       THEN /\ c_result' = <<DGA, One, "manual_block">>
            /\ c_pc' = "done"
       ELSE /\ c_result' = c_result
            /\ c_pc' = "read_model"
    /\ UNCHANGED <<defenderGlobals, c_clf, c_pred, c_fault>>
    /\ UNCHANGED <<attackerVars, serviceVars, victimVars, extraVars>>

\* a fallback that fails closed
ClassifyReadModelFailClosed ==
    /\ c_pc = "read_model"
    /\ c_model_none' = (model = NoModel)
    /\ IF model = NoModel
       THEN /\ c_result' = <<UNKNOWN, Zero, "fallback_no_model">>
            /\ c_clf' = c_clf
            /\ c_pc' = "done"
       ELSE /\ c_clf' = model
            /\ c_result' = c_result
            /\ c_pc' = "predict"
    /\ UNCHANGED <<defenderGlobals, c_arg, c_domain, c_pred,
                   c_block_seen, c_fault>>
    /\ UNCHANGED <<attackerVars, serviceVars, victimVars, extraVars>>

\* lines 186-194: the features are extracted and, in one with block, the
\* model is read
ClassifyReadModel ==
    /\ c_pc = "read_model"
    /\ c_model_none' = (model = NoModel)
    /\ IF model = NoModel
       THEN /\ c_result' = <<NOT_DGA, Zero, "fallback_no_model">>
            /\ c_clf' = c_clf
            /\ c_pc' = "done"
       ELSE /\ c_clf' = model
            /\ c_result' = c_result
            /\ c_pc' = "predict"
    /\ UNCHANGED <<defenderGlobals, c_arg, c_domain, c_pred,
                   c_block_seen, c_fault>>
    /\ UNCHANGED <<attackerVars, serviceVars, victimVars, extraVars>>

\* the prediction without the outer try: the exception of predict leaves
\* classify_domain
ClassifyPredictUncaught ==
    /\ c_pc = "predict"
    /\ \/ /\ c_clf.n_features # FeatureCount
          /\ c_fault' = "predict"
          /\ c_pred' = c_pred
          /\ c_result' = c_result
          /\ c_pc' = "raised"
       \/ /\ c_clf.n_features = FeatureCount
          /\ \E pred \in c_clf.classes :
                /\ c_pred' = pred
                /\ \/ /\ c_fault' = "predict_proba"
                      /\ c_result' = <<VerdictOfClass(pred), Zero, "model">>
                   \/ /\ c_fault' = c_fault
                      /\ \E p \in Probabilities :
                            c_result' = <<VerdictOfClass(pred), p, "model">>
          /\ c_pc' = "done"
    /\ UNCHANGED <<defenderGlobals, c_arg, c_domain, c_clf,
                   c_block_seen, c_model_none>>
    /\ UNCHANGED <<attackerVars, serviceVars, victimVars, extraVars>>

\* lines 196-221: predict raises when the tree was fitted on another number
\* of features and gives one of its classes otherwise; predict_proba gives
\* the probability of the predicted class, or fails
ClassifyPredict ==
    /\ c_pc = "predict"
    /\ \/ /\ c_clf.n_features # FeatureCount
          /\ c_fault' = "predict"
          /\ c_pred' = c_pred
          /\ c_result' = <<UNKNOWN, Zero, "error">>
       \/ /\ c_clf.n_features = FeatureCount
          /\ \E pred \in c_clf.classes :
                /\ c_pred' = pred
                /\ \/ /\ c_fault' = "predict_proba"
                      /\ c_result' = <<VerdictOfClass(pred), Zero, "model">>
                   \/ /\ c_fault' = c_fault
                      /\ \E p \in Probabilities :
                            c_result' = <<VerdictOfClass(pred), p, "model">>
    /\ c_pc' = "done"
    /\ UNCHANGED <<defenderGlobals, c_arg, c_domain, c_clf,
                   c_block_seen, c_model_none>>
    /\ UNCHANGED <<attackerVars, serviceVars, victimVars, extraVars>>

\* the caller has the tuple; the locals are gone
ClassifyReturn ==
    /\ c_pc = "done"
    /\ c_pc' = "idle"
    /\ c_arg' = <<>>
    /\ c_domain' = <<>>
    /\ c_clf' = NoModel
    /\ c_pred' = NumClass(0)
    /\ c_result' = NoResult
    /\ c_block_seen' = {}
    /\ c_model_none' = FALSE
    /\ c_fault' = "none"
    /\ UNCHANGED defenderGlobals
    /\ UNCHANGED <<attackerVars, serviceVars, victimVars, extraVars>>

\* the characters of the model in the order of their code points
CodePointOrder ==
    <<"\t", " ", ".", "/", "0", "1", "2", "3", "4", "5", "6", "7", "8", "9",
      ":">> \o UpperChars \o <<"_">> \o LowerChars

CodePoint(c) == CHOOSE i \in 1..Len(CodePointOrder) : CodePointOrder[i] = c

\* a < b for Python strings
StrLess(a, b) ==
    \E k \in 1..(Min(Len(a), Len(b)) + 1) :
        /\ \A j \in 1..(k - 1) : a[j] = b[j]
        /\ \/ k > Len(a) /\ k <= Len(b)
           \/ /\ k <= Len(a)
              /\ k <= Len(b)
              /\ CodePoint(a[k]) < CodePoint(b[k])

\* line 72: sorted(list(manual_block))
RECURSIVE SortedList(_)
SortedList(strings) ==
    IF strings = {} THEN <<>>
    ELSE LET least == CHOOSE x \in strings :
                          \A y \in strings \ {x} : StrLess(x, y)
         IN  <<least>> \o SortedList(strings \ {least})

\* the length of the text json.dump writes for a list of strings:
\* ["a", "b"]
RECURSIVE JsonLen(_)
JsonLen(items) ==
    IF items = <<>> THEN 2
    ELSE IF Len(items) = 1 THEN Len(items[1]) + 4
    ELSE Len(items[1]) + 4 + JsonLen(Tail(items))

\* blocked.json holding the text json.dump wrote for items
JsonFile(items) ==
    [items |-> items, length |-> JsonLen(items), valid |-> TRUE]

\* line 71: open(BLOCKED_FILE, "w") leaves the file empty
TruncatedFile == [items |-> <<>>, length |-> 0, valid |-> FALSE]

\* A handler writes the text of items from offset 0 to a file that it has
\* truncated before and that holds `file` now: the text replaces the
\* content when it is at least as long, and otherwise leaves the tail of
\* the longer text behind it, which is no JSON document.
WriteOver(file, items) ==
    IF JsonLen(items) >= file.length
    THEN JsonFile(items)
    ELSE [items |-> items, length |-> file.length, valid |-> FALSE]

\* lines 49-56: the set loaded from blocked.json, empty when the text does
\* not parse
LoadBlocked(file) == IF file.valid THEN Range(file.items) ELSE {}

\* persist_blocked: blocked.json is rewritten, or the write fails and is
\* logged
PersistBlocked(blocked, file) == {JsonFile(SortedList(blocked)), file}

\* lines 265-274: POST /api/block with a "domain", handled with no other
\* block-list request in progress
api_block(domain) ==
    /\ manual_block' = manual_block \cup {NormalizeDomain(domain)}
    /\ blocked_file' \in PersistBlocked(manual_block', blocked_file)
    /\ last_op' = [last_op EXCEPT ![NormalizeDomain(domain)] = "block"]
    /\ UNCHANGED <<model, load_state, classifyLocals>>
    /\ UNCHANGED <<attackerVars, serviceVars, victimVars, extraVars>>

\* the domain looked up as it was sent, surrounding whitespace removed
api_unblock_as_sent(domain) ==
    /\ IF StrStrip(domain) \in manual_block
       THEN /\ manual_block' = manual_block \ {StrStrip(domain)}
            /\ blocked_file' \in PersistBlocked(manual_block', blocked_file)
       ELSE UNCHANGED <<manual_block, blocked_file>>
    /\ last_op' = [last_op EXCEPT ![NormalizeDomain(domain)] = "unblock"]
    /\ UNCHANGED <<model, load_state, classifyLocals>>
    /\ UNCHANGED <<attackerVars, serviceVars, victimVars, extraVars>>

\* lines 276-288: POST /api/unblock with a "domain", handled with no other
\* block-list request in progress; the 404 answer changes nothing
api_unblock(domain) ==
    /\ IF NormalizeDomain(domain) \in manual_block
       THEN /\ manual_block' = manual_block \ {NormalizeDomain(domain)}
            /\ blocked_file' \in PersistBlocked(manual_block', blocked_file)
       ELSE UNCHANGED <<manual_block, blocked_file>>
    /\ last_op' = [last_op EXCEPT ![NormalizeDomain(domain)] = "unblock"]
    /\ UNCHANGED <<model, load_state, classifyLocals>>
    /\ UNCHANGED <<attackerVars, serviceVars, victimVars, extraVars>>

\* the failure of load_and_train leaves the model that was loaded before
load_and_train_keeps_model(csv) ==
    /\ model' = IF csv.kind = "ok" THEN TrainedModel(csv) ELSE model
    /\ load_state' = IF csv.kind = "ok" THEN "trained" ELSE "failed"
    /\ UNCHANGED <<manual_block, blocked_file, last_op, classifyLocals>>
    /\ UNCHANGED <<attackerVars, serviceVars, victimVars, extraVars>>

\* lines 130-158 called by retrain_periodically (line 169): the model is
\* fitted and stored, or the failure is logged and the model set to None
load_and_train(csv) ==
    /\ model' = TrainedModel(csv)
    /\ load_state' = IF csv.kind = "ok" THEN "trained" ELSE "failed"
    /\ UNCHANGED <<manual_block, blocked_file, last_op, classifyLocals>>
    /\ UNCHANGED <<attackerVars, serviceVars, victimVars, extraVars>>

\* no block-list request has completed
NoOps == [d \in BlockableDomains |-> "none"]

(***************************************************************************)
(* defender_v2: the block-list handlers step by step.  Flask serves each   *)
(* request on a thread of its own (app.run, line 525); BlockHandlers are   *)
(* two such threads.  The disk is taken to work.                           *)
(***************************************************************************)
BlockHandlers == {"b1", "b2"}

\* request.get_json(silent=True): a body with a "domain", or one without
BlockPayloads ==
    {[has_domain |-> TRUE, domain |-> d] : d \in DefenderDomains}
    \cup {[has_domain |-> FALSE, domain |-> <<>>]}

NoAnswer == [code |-> 0, status |-> "none", domain |-> <<>>]

\* lines 269 / 280
MissingDomain == [code |-> 400, status |-> "error", domain |-> <<>>]

\* lines 274 / 286
Ok(domain) == [code |-> 200, status |-> "ok", domain |-> domain]

\* line 288
NotFound(domain) == [code |-> 404, status |-> "not_found", domain |-> domain]

\* a handler thread that serves no request
IdleBlocker ==
    [pc |-> "idle", op |-> "none", arg |-> <<>>, domain |-> <<>>,
     redundant |-> FALSE, dumped |-> <<>>, response |-> NoAnswer]

otherServiceVars ==
    <<recent_queries, recent_lock, queries_file, checks, appended, listing>>

blockListFrame ==
    <<model, last_op, load_state, classifyLocals, attackerVars,
      otherServiceVars, victimVars, extraVars>>

\* the domain added as it was sent
BlockAddAsSent(t, payload) ==
    /\ blockers[t].pc = "idle"
    /\ IF ~payload.has_domain
       THEN /\ blockers' = [blockers EXCEPT ![t] =
                    [IdleBlocker EXCEPT !.pc = "done", !.op = "block",
                                        !.response = MissingDomain]]
            /\ UNCHANGED manual_block
       ELSE /\ manual_block' = manual_block \cup {StrStrip(payload.domain)}
            /\ blockers' = [blockers EXCEPT ![t] =
                    [IdleBlocker EXCEPT
                        !.pc = "persist_open", !.op = "block",
                        !.arg = payload.domain,
                        !.domain = StrStrip(payload.domain),
                        !.redundant =
                            NormalizeDomain(payload.domain) \in manual_block]]
    /\ UNCHANGED <<blocked_file, blockListFrame>>

\* lines 267-271: api_block up to manual_block.add(domain)
BlockAdd(t, payload) ==
    /\ blockers[t].pc = "idle"
    /\ IF ~payload.has_domain
       THEN /\ blockers' = [blockers EXCEPT ![t] =
                    [IdleBlocker EXCEPT !.pc = "done", !.op = "block",
                                        !.response = MissingDomain]]
            /\ UNCHANGED manual_block
       ELSE /\ manual_block' =
                    manual_block \cup {NormalizeDomain(payload.domain)}
            /\ blockers' = [blockers EXCEPT ![t] =
                    [IdleBlocker EXCEPT
                        !.pc = "persist_open", !.op = "block",
                        !.arg = payload.domain,
                        !.domain = NormalizeDomain(payload.domain),
                        !.redundant =
                            NormalizeDomain(payload.domain) \in manual_block]]
    /\ UNCHANGED <<blocked_file, blockListFrame>>

\* lines 278-283 and 287-288: api_unblock up to manual_block.remove(domain),
\* or to its 404 answer
UnblockRemove(t, payload) ==
    /\ blockers[t].pc = "idle"
    /\ IF ~payload.has_domain
       THEN /\ blockers' = [blockers EXCEPT ![t] =
                    [IdleBlocker EXCEPT !.pc = "done", !.op = "unblock",
                                        !.response = MissingDomain]]
            /\ UNCHANGED manual_block
       ELSE LET domain == NormalizeDomain(payload.domain)
            IN  IF domain \in manual_block
                THEN /\ manual_block' = manual_block \ {domain}
                     /\ blockers' = [blockers EXCEPT ![t] =
                             [IdleBlocker EXCEPT
                                 !.pc = "persist_open", !.op = "unblock",
                                 !.arg = payload.domain, !.domain = domain]]
                ELSE /\ UNCHANGED manual_block
                     /\ blockers' = [blockers EXCEPT ![t] =
                             [IdleBlocker EXCEPT
                                 !.pc = "done", !.op = "unblock",
                                 !.arg = payload.domain, !.domain = domain,
                                 !.redundant = TRUE,
                                 !.response = NotFound(domain)]]
    /\ UNCHANGED <<blocked_file, blockListFrame>>

\* line 71: persist_blocked opens blocked.json for writing
PersistOpen(t) ==
    /\ blockers[t].pc = "persist_open"
    /\ blocked_file' = TruncatedFile
    /\ blockers' = [blockers EXCEPT ![t].pc = "persist_dump"]
    /\ UNCHANGED <<manual_block, blockListFrame>>

\* line 72: the sorted list of manual_block goes to the buffer of the file
PersistDump(t) ==
    /\ blockers[t].pc = "persist_dump"
    /\ blockers' = [blockers EXCEPT ![t].pc = "persist_close",
                                    ![t].dumped = SortedList(manual_block)]
    /\ UNCHANGED <<manual_block, blocked_file, blockListFrame>>

\* the end of the with block writes the buffer from offset 0; lines 273-274
\* and 285-286: the handler answers ok
PersistClose(t) ==
    /\ blockers[t].pc = "persist_close"
    /\ blocked_file' = WriteOver(blocked_file, blockers[t].dumped)
    /\ blockers' = [blockers EXCEPT ![t].pc = "done",
                                    ![t].response = Ok(blockers[t].domain)]
    /\ UNCHANGED <<manual_block, blockListFrame>>

\* the response has been sent
BlockReturn(t) ==
    /\ blockers[t].pc = "done"
    /\ blockers' = [blockers EXCEPT ![t] = IdleBlocker]
    /\ UNCHANGED <<manual_block, blocked_file, blockListFrame>>

BlockersIdle == blockers = [t \in BlockHandlers |-> IdleBlocker]

(***************************************************************************)
(* defender_v2: api_check and api_queries.  CheckHandlers are two of the   *)
(* threads Flask serves /check on.                                         *)
(***************************************************************************)
CheckHandlers == {"k1", "k2"}

\* classify_domain run with no other writer of manual_block and model: the
\* tuples it can return
classify_domain(domain) ==
    IF NormalizeDomain(domain) \in manual_block
    THEN {<<DGA, One, "manual_block">>}
    ELSE IF model = NoModel
    THEN {<<NOT_DGA, Zero, "fallback_no_model">>}
    ELSE IF model.n_features # FeatureCount
    THEN {<<UNKNOWN, Zero, "error">>}
    ELSE {<<VerdictOfClass(pred), p, "model">> :
             pred \in model.classes, p \in Probabilities \cup {Zero}}

\* round(float(confidence), 4), as a fraction of 10000
Round4(c) == <<(2 * 10000 * c[1] + c[2]) \div (2 * c[2]), 10000>>

\* the JSON bodies sent to /check
CheckPayloads ==
    {[has_domain |-> TRUE, domain |-> d] :
        d \in {<<" ","e","v",".","i","o","\t">>, <<"o","k",".","i","o">>}}
    \cup {[has_domain |-> FALSE, domain |-> <<>>]}

\* lines 240-246; the timestamp is the number of the request
QueryRecord(domain, result, ts) ==
    [domain |-> domain, verdict |-> result[1],
     confidence |-> Round4(result[2]), source |-> result[3],
     timestamp |-> ts]

\* line 257
CheckResponse(record) ==
    [code |-> 200, verdict |-> record.verdict,
     confidence |-> record.confidence, source |-> record.source]

\* line 232
CheckError == [code |-> 400, verdict |-> <<>>, confidence |-> Zero,
               source |-> "none"]

NoCheckResponse == [code |-> 0, verdict |-> <<>>, confidence |-> Zero,
                    source |-> "none"]

NoRecord == QueryRecord(<<>>, NoResult, 0)

IdleCheck ==
    [pc |-> "idle", record |-> NoRecord, data |-> <<>>,
     response |-> NoCheckResponse]

\* data[-k:]
LastN(data, k) ==
    IF Len(data) <= k THEN data
    ELSE SubSeq(data, Len(data) - k + 1, Len(data))

\* list(reversed(data))
Reversed(data) == [i \in 1..Len(data) |-> data[Len(data) - i + 1]]

\* the well-formed /check requests received so far
Received ==
    Len(appended)
        + Cardinality({t \in CheckHandlers :
                          checks[t].pc \in {"acquire", "append"}})

checkFrame ==
    <<defenderVars, blockers, attackerVars, victimVars, extraVars>>

\* lines 230-246: the request is parsed, the domain classified and the
\* record built
CheckReceive(t, payload) ==
    /\ checks[t].pc = "idle"
    /\ IF ~payload.has_domain
       THEN checks' = [checks EXCEPT ![t] =
                [IdleCheck EXCEPT !.pc = "done", !.response = CheckError]]
       ELSE /\ Received < MaxChecks
            /\ \E result \in classify_domain(StrStrip(payload.domain)) :
                  checks' = [checks EXCEPT ![t] =
                      [IdleCheck EXCEPT
                          !.pc = "acquire",
                          !.record = QueryRecord(StrStrip(payload.domain),
                                                 result, Received + 1)]]
    /\ UNCHANGED <<recent_queries, recent_lock, queries_file, appended,
                   listing, checkFrame>>

\* line 249
CheckAcquire(t) ==
    /\ checks[t].pc = "acquire"
    /\ recent_lock = "free"
    /\ recent_lock' = t
    /\ checks' = [checks EXCEPT ![t].pc = "append"]
    /\ UNCHANGED <<recent_queries, queries_file, appended, listing,
                   checkFrame>>

\* line 250
CheckAppend(t) ==
    /\ checks[t].pc = "append"
    /\ recent_queries' = Append(recent_queries, checks[t].record)
    /\ appended' = Append(appended, checks[t].record)
    /\ checks' = [checks EXCEPT ![t].pc = "trim"]
    /\ UNCHANGED <<recent_lock, queries_file, listing, checkFrame>>

\* the newest record removed in place of the oldest
CheckTrimNewest(t) ==
    /\ checks[t].pc = "trim"
    /\ recent_queries' =
           IF Len(recent_queries) > MAX_RECENT
           THEN SubSeq(recent_queries, 1, Len(recent_queries) - 1)
           ELSE recent_queries
    /\ recent_lock' = "free"
    /\ checks' = [checks EXCEPT ![t].pc = "persist_read"]
    /\ UNCHANGED <<queries_file, appended, listing, checkFrame>>

\* lines 251-252 and the end of the with block
CheckTrim(t) ==
    /\ checks[t].pc = "trim"
    /\ recent_queries' =
           IF Len(recent_queries) > MAX_RECENT
           THEN Tail(recent_queries)
           ELSE recent_queries
    /\ recent_lock' = "free"
    /\ checks' = [checks EXCEPT ![t].pc = "persist_read"]
    /\ UNCHANGED <<queries_file, appended, listing, checkFrame>>

\* lines 79-85: persist_query reads queries.json and appends the record to
\* the list it read
PersistRead(t) ==
    /\ checks[t].pc = "persist_read"
    /\ checks' = [checks EXCEPT
           ![t].pc = "persist_write",
           ![t].data = Append(queries_file, checks[t].record)]
    /\ UNCHANGED <<recent_queries, recent_lock, queries_file, appended,
                   listing, checkFrame>>

\* lines 86-88: the last PersistedCap records are written from offset 0
\* and the file is cut after them; lines 254-257: the handler answers
PersistWrite(t) ==
    /\ checks[t].pc = "persist_write"
    /\ queries_file' = LastN(checks[t].data, PersistedCap)
    /\ checks' = [checks EXCEPT
           ![t].pc = "done",
           ![t].response = CheckResponse(checks[t].record)]
    /\ UNCHANGED <<recent_queries, recent_lock, appended, listing,
                   checkFrame>>

\* the response has been sent
CheckReturn(t) ==
    /\ checks[t].pc = "done"
    /\ checks' = [checks EXCEPT ![t] = IdleCheck]
    /\ UNCHANGED <<recent_queries, recent_lock, queries_file, appended,
                   listing, checkFrame>>

NoListing == [at |-> 0, asked |-> FALSE, items |-> <<>>]

\* lines 259-263: GET /api/queries
api_queries ==
    /\ recent_lock = "free"
    /\ listing' = [at |-> Len(appended), asked |-> TRUE,
                   items |-> Reversed(recent_queries)]
    /\ UNCHANGED <<recent_queries, recent_lock, queries_file, checks,
                   appended, checkFrame>>

\* lines 44 and 521-523: no query yet, queries.json holds []
ChecksIdle ==
    /\ recent_queries = <<>>
    /\ recent_lock = "free"
    /\ queries_file = <<>>
    /\ checks = [t \in CheckHandlers |-> IdleCheck]
    /\ appended = <<>>
    /\ listing = NoListing

\* the defender before any request
DefenderIdle ==
    /\ manual_block = {}
    /\ blocked_file = JsonFile(<<>>)
    /\ model = NoModel
    /\ last_op = NoOps
    /\ load_state = "failed"
    /\ c_pc = "idle"
    /\ c_arg = <<>>
    /\ c_domain = <<>>
    /\ c_clf = NoModel
    /\ c_pred = NumClass(0)
    /\ c_result = NoResult
    /\ c_block_seen = {}
    /\ c_model_none = FALSE
    /\ c_fault = "none"

(***************************************************************************)
(* attacker_v2: rotate_sets_loop                                           *)
(***************************************************************************)
\* random.sample(population, k) made a set: any k positions of the list
RandomSample(population, k) ==
    {{population[i] : i \in pos} :
        pos \in {p \in SUBSET (1..Len(population)) : Cardinality(p) = k}}

\* a lock that excludes nobody
LockNeverHeld == TRUE

\* `with state_lock:` can be entered
LockIsFree == state_lock = "free"

rotLocals == <<labels, active, set_index, slept>>
handlerVars ==
    <<h_pc, requested_domain, h_label, labels_snapshot, active_snapshot,
      response, log_kind, h_seen>>

\* lines 94-98: the loop test passes, a set is generated and a sample drawn
RotGenerate ==
    /\ rot_pc = "loop"
    /\ ~stop_event
    /\ set_index < MaxSets
    /\ labels' = generate_set(minute)
    /\ active' \in RandomSample(labels', Min(ACTIVE_PER_SET, Len(labels')))
    /\ rot_pc' = "acquire"
    /\ UNCHANGED <<defenderVars, serviceVars, victimVars, extraVars>>
    /\ UNCHANGED <<minute, stop_event, set_index, slept, current_labels,
                   current_active, state_lock, last_published, handlerVars>>

\* line 94: the loop test fails, the loop exits
RotExit ==
    /\ rot_pc = "loop"
    /\ stop_event
    /\ rot_pc' = "stopped"
    /\ UNCHANGED <<defenderVars, serviceVars, victimVars, extraVars>>
    /\ UNCHANGED <<minute, stop_event, rotLocals, current_labels,
                   current_active, state_lock, last_published, handlerVars>>

\* line 99
RotAcquire ==
    /\ rot_pc = "acquire"
    /\ LockIsFree
    /\ state_lock' = "rotate_sets_loop"
    /\ rot_pc' = "clear_labels"
    /\ UNCHANGED <<defenderVars, serviceVars, victimVars, extraVars>>
    /\ UNCHANGED <<minute, stop_event, rotLocals, current_labels,
                   current_active, last_published, handlerVars>>

\* line 100
RotClearLabels ==
    /\ rot_pc = "clear_labels"
    /\ current_labels' = <<>>
    /\ rot_pc' = "extend_labels"
    /\ UNCHANGED <<defenderVars, serviceVars, victimVars, extraVars>>
    /\ UNCHANGED <<minute, stop_event, rotLocals, current_active, state_lock,
                   last_published, handlerVars>>

\* line 101
RotExtendLabels ==
    /\ rot_pc = "extend_labels"
    /\ current_labels' = current_labels \o labels
    /\ rot_pc' = "clear_active"
    /\ UNCHANGED <<defenderVars, serviceVars, victimVars, extraVars>>
    /\ UNCHANGED <<minute, stop_event, rotLocals, current_active, state_lock,
                   last_published, handlerVars>>

\* the rotation without current_active.clear()
RotClearActiveSkipped ==
    /\ rot_pc = "clear_active"
    /\ rot_pc' = "update_active"
    /\ UNCHANGED <<defenderVars, serviceVars, victimVars, extraVars>>
    /\ UNCHANGED <<minute, stop_event, rotLocals, current_labels,
                   current_active, state_lock, last_published, handlerVars>>

\* line 102
RotClearActive ==
    /\ rot_pc = "clear_active"
    /\ current_active' = {}
    /\ rot_pc' = "update_active"
    /\ UNCHANGED <<defenderVars, serviceVars, victimVars, extraVars>>
    /\ UNCHANGED <<minute, stop_event, rotLocals, current_labels, state_lock,
                   last_published, handlerVars>>

\* lines 103-108: the update, the end of the with block, the log lines
RotUpdateActive ==
    /\ rot_pc = "update_active"
    /\ current_active' = current_active \cup active
    /\ state_lock' = "free"
    /\ last_published' = <<current_labels, current_active'>>
    /\ set_index' = set_index + 1
    /\ slept' = 0
    /\ rot_pc' = "wait"
    /\ UNCHANGED <<defenderVars, serviceVars, victimVars, extraVars>>
    /\ UNCHANGED <<minute, stop_event, labels, active, current_labels,
                   handlerVars>>

\* the wait ended after a single 0.5 s poll
RotWaitOnePoll ==
    /\ rot_pc = "wait"
    /\ IF slept < 1 /\ ~stop_event
       THEN /\ slept' = slept + 1
            /\ rot_pc' = rot_pc
       ELSE /\ rot_pc' = "loop"
            /\ slept' = slept
    /\ UNCHANGED <<defenderVars, serviceVars, victimVars, extraVars>>
    /\ UNCHANGED <<minute, stop_event, labels, active, set_index,
                   current_labels, current_active, state_lock, last_published,
                   handlerVars>>

\* lines 109-111: one test of the inner loop, and one sleep when it passes
RotWait ==
    /\ rot_pc = "wait"
    /\ IF slept < 2 * DELAY_SECONDS /\ ~stop_event
       THEN /\ slept' = slept + 1
            /\ rot_pc' = rot_pc
       ELSE /\ rot_pc' = "loop"
            /\ slept' = slept
    /\ UNCHANGED <<defenderVars, serviceVars, victimVars, extraVars>>
    /\ UNCHANGED <<minute, stop_event, labels, active, set_index,
                   current_labels, current_active, state_lock, last_published,
                   handlerVars>>

\* line 189: main() sets the stop event
StopSignal ==
    /\ ~stop_event
    /\ stop_event' = TRUE
    /\ UNCHANGED <<defenderVars, serviceVars, victimVars, extraVars>>
    /\ UNCHANGED <<minute, rot_pc, rotLocals, current_labels, current_active,
                   state_lock, last_published, handlerVars>>

\* time passes into the next minute bucket
ClockTick ==
    /\ minute < MaxMinute
    /\ minute' = minute + 1
    /\ UNCHANGED <<defenderVars, serviceVars, victimVars, extraVars>>
    /\ UNCHANGED <<stop_event, rot_pc, rotLocals, current_labels,
                   current_active, state_lock, last_published, handlerVars>>

(***************************************************************************)
(* attacker_v2: catch_all                                                  *)
(***************************************************************************)
\* a matcher that takes the suffix into account: only ".com" is removed
domain_label_com_only(domain) ==
    LET d == StrLower(StrStrip(domain))
        n == Len(TLD_LIST[1])
    IN  IF Len(d) >= n /\ SubSeq(d, Len(d) - n + 1, Len(d)) = TLD_LIST[1]
        THEN SubSeq(d, 1, Len(d) - n)
        ELSE d

\* domain_label_from_domain: the label, left of the last dot, lower-cased
domain_label_from_domain(domain) ==
    LET d == StrLower(StrStrip(domain))
    IN  IF Contains(d, ".") THEN RSplitHead(d, ".") ELSE d

\* lines 127-131: the Host header without its port, else the first path
\* segment, lower-cased
ResolveDomain(host, path) ==
    LET hostName == StrLower(SplitFirst(host, ":"))
    IN  IF hostName # <<>> THEN hostName ELSE StrLower(SplitFirst(path, "/"))

HiFrom == <<"h","i"," ","f","r","o","m"," ">>

C2Connected ==
    <<"C","2"," ","s","e","r","v","e","r"," ",
      "c","o","n","n","e","c","t","e","d">>

\* the label test placed before the allow-list test
DecideLabelFirst(domain, label, labelsSnap, activeSnap) ==
    IF label \in Range(labelsSnap)
    THEN IF label \in activeSnap
         THEN [response |-> [status |-> 200, body |-> C2Connected],
               log |-> "C2 ACCEPT"]
         ELSE [response |-> [status |-> 404, body |-> <<>>],
               log |-> "DROPPED"]
    ELSE IF domain \in ALLOWED_DOMAINS
    THEN [response |-> [status |-> 200, body |-> HiFrom \o domain],
          log |-> "ALLOWED"]
    ELSE [response |-> [status |-> 404, body |-> <<>>], log |-> "IGNORED"]

\* every label of the set accepted, active or not
DecideWithoutActiveTest(domain, label, labelsSnap, activeSnap) ==
    IF domain \in ALLOWED_DOMAINS
    THEN [response |-> [status |-> 200, body |-> HiFrom \o domain],
          log |-> "ALLOWED"]
    ELSE IF label \in Range(labelsSnap)
    THEN [response |-> [status |-> 200, body |-> C2Connected],
          log |-> "C2 ACCEPT"]
    ELSE [response |-> [status |-> 404, body |-> <<>>], log |-> "IGNORED"]

\* the dormant label logged like an unknown one
DecideDroppedAsIgnored(domain, label, labelsSnap, activeSnap) ==
    IF domain \in ALLOWED_DOMAINS
    THEN [response |-> [status |-> 200, body |-> HiFrom \o domain],
          log |-> "ALLOWED"]
    ELSE IF label \in Range(labelsSnap) /\ label \in activeSnap
    THEN [response |-> [status |-> 200, body |-> C2Connected],
          log |-> "C2 ACCEPT"]
    ELSE [response |-> [status |-> 404, body |-> <<>>], log |-> "IGNORED"]

\* lines 142-167: the response and the class of the log line
Decide(domain, label, labelsSnap, activeSnap) ==
    IF domain \in ALLOWED_DOMAINS
    THEN [response |-> [status |-> 200, body |-> HiFrom \o domain],
          log |-> "ALLOWED"]
    ELSE IF label \in Range(labelsSnap)
    THEN IF label \in activeSnap
         THEN [response |-> [status |-> 200, body |-> C2Connected],
               log |-> "C2 ACCEPT"]
         ELSE [response |-> [status |-> 404, body |-> <<>>],
               log |-> "DROPPED"]
    ELSE [response |-> [status |-> 404, body |-> <<>>], log |-> "IGNORED"]

\* The requests the model sends: labels of generated sets and one that is
\* never generated, under two suffixes, and the special forms of a request.
RequestLabels ==
    {generate_set(0)[1], generate_set(0)[2], generate_set(MaxMinute)[1],
     <<"z", "9">>}

RequestSuffixes == {TLD_LIST[1], TLD_LIST[2]}

\* <<Host header, path>>
RequestInputs ==
    {<<l \o t, <<>>>> : l \in RequestLabels, t \in RequestSuffixes}
    \cup {<<GoogleCom, <<>>>>,
          <<MicrosoftCom \o <<":","8","0">>, <<>>>>,
          <<<<"G","o","o","g","l","e",".","c","o","m">>, <<>>>>,
          <<<<"g","o","o","g","l","e",".","n","e","t">>, <<>>>>,
          <<StrUpper(generate_set(0)[1]) \o TLD_LIST[1], <<>>>>,
          <<generate_set(0)[1], <<>>>>,
          <<<<>>, <<>>>>,
          <<<<>>, <<" ">> \o generate_set(0)[1] \o TLD_LIST[1]>>,
          <<<<>>, generate_set(0)[2] \o TLD_LIST[3] \o <<"/","x">>>>}

rotatorVars ==
    <<minute, stop_event, rot_pc, labels, active, set_index, slept,
      current_labels, current_active, last_published>>

\* One call of catch_all is followed at a time: calls share nothing but
\* state_lock and only read current_labels and current_active.

\* lines 127-136: a request arrives, its domain and label are computed
HReceive(host, path) ==
    /\ h_pc = "idle"
    /\ requested_domain' = ResolveDomain(host, path)
    /\ h_label' = domain_label_from_domain(requested_domain')
    /\ h_pc' = "acquire"
    /\ UNCHANGED <<defenderVars, serviceVars, victimVars, extraVars>>
    /\ UNCHANGED <<rotatorVars, state_lock, labels_snapshot, active_snapshot,
                   response, log_kind, h_seen>>

\* line 138
HAcquire ==
    /\ h_pc = "acquire"
    /\ LockIsFree
    /\ state_lock' = "catch_all"
    /\ h_seen' = last_published
    /\ h_pc' = "snap_labels"
    /\ UNCHANGED <<defenderVars, serviceVars, victimVars, extraVars>>
    /\ UNCHANGED <<rotatorVars, requested_domain, h_label, labels_snapshot,
                   active_snapshot, response, log_kind>>

\* line 139
HSnapLabels ==
    /\ h_pc = "snap_labels"
    /\ labels_snapshot' = current_labels
    /\ h_pc' = "snap_active"
    /\ UNCHANGED <<defenderVars, serviceVars, victimVars, extraVars>>
    /\ UNCHANGED <<rotatorVars, state_lock, requested_domain, h_label,
                   active_snapshot, response, log_kind, h_seen>>

\* line 140 and the end of the with block
HSnapActive ==
    /\ h_pc = "snap_active"
    /\ active_snapshot' = current_active
    /\ state_lock' = "free"
    /\ h_pc' = "decide"
    /\ UNCHANGED <<defenderVars, serviceVars, victimVars, extraVars>>
    /\ UNCHANGED <<rotatorVars, requested_domain, h_label, labels_snapshot,
                   response, log_kind, h_seen>>

\* lines 142-167
HDecide ==
    /\ h_pc = "decide"
    /\ LET d == Decide(requested_domain, h_label, labels_snapshot,
                       active_snapshot)
       IN  /\ response' = d.response
           /\ log_kind' = d.log
    /\ h_pc' = "done"
    /\ UNCHANGED <<defenderVars, serviceVars, victimVars, extraVars>>
    /\ UNCHANGED <<rotatorVars, state_lock, requested_domain, h_label,
                   labels_snapshot, active_snapshot, h_seen>>

\* the response has been sent and the locals are gone; the next request
\* can be followed
HReturn ==
    /\ h_pc = "done"
    /\ h_pc' = "idle"
    /\ requested_domain' = <<>>
    /\ h_label' = <<>>
    /\ labels_snapshot' = <<>>
    /\ active_snapshot' = {}
    /\ response' = NoResponse
    /\ log_kind' = "none"
    /\ h_seen' = InitialPair
    /\ UNCHANGED <<defenderVars, serviceVars, victimVars, extraVars>>
    /\ UNCHANGED <<rotatorVars, state_lock>>

(***************************************************************************)
(* victim_v2: label generation                                             *)
(***************************************************************************)
\* the timestamp with its seconds kept
TimestampWithSeconds(set_time) == set_time

\* datetime.utcfromtimestamp(set_time).strftime("%Y%m%d%H%M") (attacker
\* line 70, victim line 78): the time without its seconds
TimestampStr(set_time) == set_time \div SecondsPerMinute

\* victim generate_domain_label (label_length defaults to 12)
victim_generate_domain_label(timestamp, index) ==
    LET b32 == B32Digest(timestamp, index)
        label == SubSeq(b32, 1, Min(LABEL_LENGTH, Len(b32)))
    IN  IF label # <<>> /\ label[1] \in Digits
        THEN <<"a">> \o SubSeq(label, 2, Len(label))
        ELSE label

\* the loop without the test `label not in labels`
RECURSIVE VictimCollectAll(_, _, _)
VictimCollectAll(timestamp, labelsSoFar, i) ==
    IF Len(labelsSoFar) >= SET_SIZE THEN labelsSoFar
    ELSE VictimCollectAll(timestamp,
             Append(labelsSoFar, victim_generate_domain_label(timestamp, i)),
             i + 1)

\* victim lines 79-85: the while loop of generate_set
RECURSIVE VictimCollectLabels(_, _, _)
VictimCollectLabels(timestamp, labelsSoFar, i) ==
    IF Len(labelsSoFar) >= SET_SIZE THEN labelsSoFar
    ELSE LET label == victim_generate_domain_label(timestamp, i)
         IN  IF label \notin Range(labelsSoFar)
             THEN VictimCollectLabels(timestamp, Append(labelsSoFar, label),
                                      i + 1)
             ELSE VictimCollectLabels(timestamp, labelsSoFar, i + 1)

\* victim generate_set: each label with the TLD of its position
victim_generate_set(set_time) ==
    LET found == VictimCollectLabels(TimestampStr(set_time), <<>>, 0)
    IN  [idx \in 1..Len(found) |->
            found[idx] \o TLD_LIST[((idx - 1) % Len(TLD_LIST)) + 1]]

(***************************************************************************)
(* victim_v2: handle_domain.  One call is followed at a time: the calls of *)
(* the generation loop and of the input loop share no state.               *)
(***************************************************************************)
\* a JSON null in the place of a string
JsonNull == <<"null">>

\* What requests.post and the reading of its response can give (lines
\* 103-105): no response in time, no connection, a 4xx/5xx status, a body
\* that is not JSON, a JSON value that is no object, or a JSON object.  An
\* object is the answer of api_check for the domain, or any other object,
\* with or without a "verdict".
Replies(domain) ==
    {[kind |-> k, has_verdict |-> FALSE, verdict |-> <<>>, source |-> "none"] :
        k \in {"timeout", "connection_error", "http_error", "non_json",
               "json_other", "json_object"}}
    \cup {[kind |-> "json_object", has_verdict |-> TRUE, verdict |-> v,
           source |-> "none"] :
            v \in {DGA, NOT_DGA, UNKNOWN, StrLower(NOT_DGA), JsonNull}}
    \cup {[kind |-> "json_object", has_verdict |-> TRUE,
           verdict |-> result[1], source |-> result[3]] :
            result \in classify_domain(StrStrip(domain))}

NoReply ==
    [kind |-> "none", has_verdict |-> FALSE, verdict |-> <<>>,
     source |-> "none"]

\* lines 102-113: what send_to_defender returns, or that it raised;
\* data.get on a JSON value that is no object raises AttributeError, which
\* neither except clause catches
send_to_defender(reply) ==
    IF reply.kind = "json_object"
    THEN [raised |-> FALSE,
          verdict |-> IF reply.has_verdict THEN reply.verdict ELSE UNKNOWN]
    ELSE IF reply.kind = "json_other"
    THEN [raised |-> TRUE, verdict |-> <<>>]
    ELSE [raised |-> FALSE, verdict |-> UNKNOWN]

\* what requests.get gives simulate_connection (lines 122-126): a status,
\* or a RequestException
Connections == {"200", "404", "failed"}

IdleCall ==
    [pc |-> "idle", caller |-> "none", domain |-> <<>>, reply |-> NoReply,
     verdict |-> <<>>, connected |-> FALSE, connection |-> "none"]

\* handle_domain(domain) is called: line 136
Call(caller, domain) ==
    [IdleCall EXCEPT !.pc = "send", !.caller = caller, !.domain = domain]

victimLoopVars ==
    <<v_now, v_stop, v_pc, v_set_index, v_set_time, v_domains, v_next,
      v_slept, v_elapsed>>

victimFrame == <<attackerVars, defenderVars, serviceVars, extraVars>>

\* line 137: send_to_defender(domain) returns or raises
HdSend ==
    /\ hd.pc = "send"
    /\ \E reply \in Replies(hd.domain) :
          LET resp == send_to_defender(reply)
          IN  hd' = [hd EXCEPT
                  !.reply = reply,
                  !.verdict = resp.verdict,
                  !.pc = IF resp.raised THEN "raised" ELSE "act"]
    /\ UNCHANGED <<victimLoopVars, victimFrame>>

\* every verdict but DGA leads to a connection
HdActUnlessDga ==
    /\ hd.pc = "act"
    /\ hd' = [hd EXCEPT
           !.pc = IF hd.verdict # DGA THEN "connect" ELSE "returned"]
    /\ UNCHANGED <<victimLoopVars, victimFrame>>

\* lines 138-148: the verdict decides
HdAct ==
    /\ hd.pc = "act"
    /\ hd' = [hd EXCEPT
           !.pc = IF hd.verdict = NOT_DGA THEN "connect" ELSE "returned"]
    /\ UNCHANGED <<victimLoopVars, victimFrame>>

\* lines 142-143 and 120-126: simulate_connection
HdConnect ==
    /\ hd.pc = "connect"
    /\ \E outcome \in Connections :
          hd' = [hd EXCEPT !.connected = TRUE, !.connection = outcome,
                           !.pc = "returned"]
    /\ UNCHANGED <<victimLoopVars, victimFrame>>

\* lines 103 and 123: a request of a call made by the generation loop has
\* been running for another half second (each may run for its timeout of
\* 5 s)
HdSlow ==
    /\ hd.pc \in {"send", "connect"}
    /\ hd.caller = "dga_generation_loop"
    /\ v_elapsed < MaxElapsed
    /\ v_elapsed' = v_elapsed + 1
    /\ UNCHANGED <<v_now, v_stop, v_pc, v_set_index, v_set_time, v_domains,
                   v_next, v_slept, hd, victimFrame>>

(***************************************************************************)
(* victim_v2: dga_generation_loop and interactive_input_loop               *)
(***************************************************************************)
\* lines 153-156: the loop test passes and a set is generated
VGenerate ==
    /\ v_pc = "loop"
    /\ ~v_stop
    /\ v_set_index < MaxSets
    /\ v_set_time' = v_now
    /\ v_domains' = victim_generate_set(v_now)
    /\ v_next' = 1
    /\ v_pc' = "for"
    /\ v_elapsed' = 0
    /\ UNCHANGED <<v_now, v_stop, v_set_index, v_slept, hd, victimFrame>>

\* line 153: the loop test fails
VExit ==
    /\ v_pc = "loop"
    /\ v_stop
    /\ v_pc' = "stopped"
    /\ UNCHANGED <<v_now, v_stop, v_set_index, v_set_time, v_domains, v_next,
                   v_slept, v_elapsed, hd, victimFrame>>

\* lines 157-164: the next domain is handled, or the for loop ends
VFor ==
    /\ v_pc = "for"
    /\ IF v_next <= Len(v_domains) /\ ~v_stop
       THEN /\ hd.pc = "idle"
            /\ hd' = Call("dga_generation_loop", v_domains[v_next])
            /\ v_pc' = "handling"
            /\ UNCHANGED <<v_set_index, v_slept>>
       ELSE /\ v_set_index' = v_set_index + 1
            /\ v_slept' = 0
            /\ v_pc' = "wait"
            /\ UNCHANGED hd
    /\ UNCHANGED <<v_now, v_stop, v_set_time, v_domains, v_next, v_elapsed,
                   victimFrame>>

\* line 160: handle_domain returns to the loop, or its exception ends the
\* thread of the loop
VHandled ==
    /\ v_pc = "handling"
    /\ hd.caller = "dga_generation_loop"
    /\ hd.pc \in {"returned", "raised"}
    /\ IF hd.pc = "returned"
       THEN /\ v_next' = v_next + 1
            /\ v_pc' = "for"
       ELSE /\ v_next' = v_next
            /\ v_pc' = "crashed"
    /\ hd' = IdleCall
    /\ UNCHANGED <<v_now, v_stop, v_set_index, v_set_time, v_domains,
                   v_slept, v_elapsed, victimFrame>>

\* lines 165-167: one test of the inner loop, and one sleep when it passes
VWait ==
    /\ v_pc = "wait"
    /\ IF v_slept < 2 * DELAY_SECONDS /\ ~v_stop
       THEN /\ v_slept' = v_slept + 1
            /\ v_elapsed' = v_elapsed + 1
            /\ v_pc' = v_pc
       ELSE /\ v_pc' = "loop"
            /\ v_slept' = v_slept
            /\ v_elapsed' = v_elapsed
    /\ UNCHANGED <<v_now, v_stop, v_set_index, v_set_time, v_domains, v_next,
                   hd, victimFrame>>

\* a second passes
VClockTick ==
    /\ v_now < MaxTime
    /\ v_now' = v_now + 1
    /\ UNCHANGED <<v_stop, v_pc, v_set_index, v_set_time, v_domains, v_next,
                   v_slept, v_elapsed, hd, victimFrame>>

\* what the user types
UserInputs ==
    {<<"e","x","i","t">>, <<" ","E","x","i","t">>, <<>>,
     <<"e","v",".","i","o">>, <<"O","K",".","i","o"," ">>, <<"e","v">>}

\* lines 173-183: a line is read; exit stops the victim, an empty line is
\* skipped, any other line is handled as a domain
InteractiveInput(line) ==
    /\ ~v_stop
    /\ v_pc # "exited"
    /\ hd.pc = "idle"
    /\ LET user_input == StrStrip(line)
       IN  IF StrLower(user_input) = <<"e","x","i","t">>
           THEN /\ v_stop' = TRUE
                /\ UNCHANGED hd
           ELSE /\ user_input # <<>>
                /\ hd' = Call("interactive_input_loop",
                              IF Contains(user_input, ".") THEN user_input
                              ELSE user_input \o TLD_LIST[1])
                /\ UNCHANGED v_stop
    /\ UNCHANGED <<v_now, v_pc, v_set_index, v_set_time, v_domains, v_next,
                   v_slept, v_elapsed, victimFrame>>

\* line 183: handle_domain returns to the input loop; lines 207-211: its
\* exception leaves main(), is logged, and sys.exit(1) ends the process
\* and with it the daemon thread of the generation loop
InteractiveHandled ==
    /\ hd.caller = "interactive_input_loop"
    /\ hd.pc \in {"returned", "raised"}
    /\ IF hd.pc = "returned"
       THEN UNCHANGED <<v_pc, entry>>
       ELSE /\ v_pc' = "exited"
            /\ entry' = [entry EXCEPT !["victim_v2"] = CaughtExit]
    /\ hd' = IdleCall
    /\ UNCHANGED <<v_now, v_stop, v_set_index, v_set_time, v_domains, v_next,
                   v_slept, v_elapsed>>
    /\ UNCHANGED <<attackerVars, defenderVars, serviceVars, fx, health,
                   model_lock, lt>>

\* lines 184-186: CTRL-C or the end of the input
InteractiveEnd ==
    /\ ~v_stop
    /\ v_pc # "exited"
    /\ hd.caller # "interactive_input_loop"
    /\ v_stop' = TRUE
    /\ UNCHANGED <<v_now, v_pc, v_set_index, v_set_time, v_domains, v_next,
                   v_slept, v_elapsed, hd, victimFrame>>

\* the victim before it starts
VictimIdle ==
    /\ v_now = 0
    /\ v_stop = FALSE
    /\ v_pc = "loop"
    /\ v_set_index = 0
    /\ v_set_time = 0
    /\ v_domains = <<>>
    /\ v_next = 1
    /\ v_slept = 0
    /\ v_elapsed = 0
    /\ hd = IdleCall

(***************************************************************************)
(* defender_v2: feature extraction                                         *)
(***************************************************************************)
\* str.isalpha() on the characters of the model
Letters == Range(LowerChars) \cup Range(UpperChars)

\* line 119: "aeiou"
Vowels == {"a", "e", "i", "o", "u"}

\* sum(c in chars for c in s)
CountIn(s, chars) == Cardinality({i \in 1..Len(s) : s[i] \in chars})

\* s.count(c)
CharCount(s, c) == Cardinality({i \in 1..Len(s) : s[i] = c})

RECURSIVE Gcd(_, _)
Gcd(a, b) == IF b = 0 THEN a ELSE Gcd(b, a % b)

\* a / b as a fraction in lowest terms (b > 0)
Ratio(a, b) == <<a \div Gcd(a, b), b \div Gcd(a, b)>>

\* the value 0.0 that line 98 returns: a sum of no terms
ZeroEntropy == [p \in {} |-> 0]

\* lines 96-100.  The entropy -sum(p * log2(p)) is kept as its terms: each
\* probability count/len of a character of s, with the number of
\* characters that have it.
shannon_entropy(s) ==
    IF s = <<>> THEN ZeroEntropy
    ELSE [p \in {<<CharCount(s, c), Len(s)>> : c \in Range(s)} |->
             Cardinality({c \in Range(s) : CharCount(s, c) = p[1]})]

\* the features taken from the whole domain, suffix included
extract_features_whole_domain(domain) ==
    LET name == StrLower(StrStrip(domain))
        length == Len(name)
        digits == CountIn(name, Digits)
        letters == CountIn(name, Letters)
        vowels == CountIn(name, Vowels)
    IN  <<length, digits, letters, Cardinality(Range(name)), vowels,
          letters - vowels,
          IF length > 0 THEN Ratio(digits, length) ELSE Zero,
          shannon_entropy(name)>>

\* lines 102-124: [length, digits, letters, unique_chars, vowels,
\* consonants, digit_ratio, entropy]
extract_features_from_domain(domain) ==
    LET stripped == StrLower(StrStrip(domain))
        name == IF Contains(stripped, ".") THEN RSplitHead(stripped, ".")
                ELSE stripped
        length == Len(name)
        digits == CountIn(name, Digits)
        letters == CountIn(name, Letters)
        vowels == CountIn(name, Vowels)
    IN  <<length, digits, letters, Cardinality(Range(name)), vowels,
          letters - vowels,
          IF length > 0 THEN Ratio(digits, length) ELSE Zero,
          shannon_entropy(name)>>

\* the labels of the domains passed to extract_features_from_domain
FeatureLabels ==
    {<<"a","b","c","1","2","3">>, <<>>, <<"a","a","a">>, <<"a","-","1">>,
     <<"a",".","b">>, <<"e","0">>}

FeatureSuffixes == {<<".","c","o","m">>, <<".","n","e","t">>, <<>>}

\* each label with each suffix, as it is and in capitals between whitespace
FeatureDomains ==
    {l \o sfx : l \in FeatureLabels, sfx \in FeatureSuffixes}
    \cup {<<" ">> \o StrUpper(l \o sfx) \o <<"\t">> :
             l \in FeatureLabels, sfx \in FeatureSuffixes}

NoFeatures == <<>>

IdleExtract ==
    [pc |-> "idle", arg |-> <<>>, feats |-> NoFeatures,
     prev_arg |-> <<>>, prev_feats |-> NoFeatures]

\* extract_features_from_domain(domain) is called and returns its list
ExtractCall(domain) ==
    /\ fx.pc = "idle"
    /\ fx' = [fx EXCEPT !.pc = "done", !.arg = domain,
                        !.feats = extract_features_from_domain(domain)]
    /\ UNCHANGED <<attackerVars, defenderVars, serviceVars, victimVars>>
    /\ UNCHANGED <<health, model_lock, lt, entry>>

\* the caller has the list; the call is remembered as the call before the
\* next one
ExtractReturn ==
    /\ fx.pc = "done"
    /\ fx' = [fx EXCEPT !.pc = "idle", !.arg = <<>>, !.feats = NoFeatures,
                        !.prev_arg = fx.arg, !.prev_feats = fx.feats]
    /\ UNCHANGED <<attackerVars, defenderVars, serviceVars, victimVars>>
    /\ UNCHANGED <<health, model_lock, lt, entry>>

(***************************************************************************)
(* attacker_v2: the /health handler.  One call is followed at a time.      *)
(***************************************************************************)
IdleHealth ==
    [pc |-> "idle", active |-> {}, labels_count |-> 0, seen |-> InitialPair]

healthFrame ==
    <<defenderVars, serviceVars, victimVars, fx, model_lock, lt, entry,
      rotatorVars, handlerVars>>

\* line 172: GET /health arrives and the handler enters `with state_lock`
HealthAcquire ==
    /\ health.pc = "idle"
    /\ LockIsFree
    /\ state_lock' = "health"
    /\ health' = [IdleHealth EXCEPT !.pc = "snap", !.seen = last_published]
    /\ UNCHANGED healthFrame

\* line 173 and the end of the with block: active = list(current_active)
HealthSnapActive ==
    /\ health.pc = "snap"
    /\ health' = [health EXCEPT !.pc = "count", !.active = current_active]
    /\ state_lock' = "free"
    /\ UNCHANGED healthFrame

\* line 174: the response is built; len(current_labels) is read here
HealthCount ==
    /\ health.pc = "count"
    /\ health' = [health EXCEPT !.pc = "done",
                                !.labels_count = Len(current_labels)]
    /\ UNCHANGED <<state_lock, healthFrame>>

\* the response has been sent
HealthReturn ==
    /\ health.pc = "done"
    /\ health' = IdleHealth
    /\ UNCHANGED <<state_lock, healthFrame>>

(***************************************************************************)
(* defender_v2: load_and_train and the with block of classify_domain step  *)
(* by step, with model_lock                                                *)
(***************************************************************************)
NoCsvInput == [kind |-> "none", classes |-> {}, n_features |-> 0]

IdleLoad == [pc |-> "idle", csv |-> NoCsvInput]

guardFrame ==
    <<attackerVars, serviceVars, victimVars, fx, health, entry>>

\* line 130: load_and_train(csv_path) is called
LoadBegin(csv) ==
    /\ lt.pc = "idle"
    /\ lt' = [pc |-> "exists", csv |-> csv]
    /\ UNCHANGED <<defenderVars, model_lock, guardFrame>>

\* lines 132-135: the CSV is missing; model = None is assigned
LoadMissing ==
    /\ lt.pc = "exists"
    /\ lt.csv.kind = "missing"
    /\ model' = NoModel
    /\ load_state' = "failed"
    /\ lt' = [lt EXCEPT !.pc = "done"]
    /\ UNCHANGED <<manual_block, blocked_file, last_op, classifyLocals,
                   model_lock, guardFrame>>

\* lines 136-152: the CSV is read and the tree fitted, or one of the calls
\* raises
LoadFit ==
    /\ lt.pc = "exists"
    /\ lt.csv.kind # "missing"
    /\ lt' = [lt EXCEPT !.pc = IF lt.csv.kind = "ok" THEN "acquire"
                               ELSE "except"]
    /\ UNCHANGED <<defenderVars, model_lock, guardFrame>>

\* line 153
LoadAcquire ==
    /\ lt.pc = "acquire"
    /\ model_lock = "free"
    /\ model_lock' = "load_and_train"
    /\ lt' = [lt EXCEPT !.pc = "store"]
    /\ UNCHANGED <<defenderVars, guardFrame>>

\* lines 154-155 and the end of the with block
LoadStore ==
    /\ lt.pc = "store"
    /\ model' = TrainedModel(lt.csv)
    /\ load_state' = "trained"
    /\ model_lock' = "free"
    /\ lt' = [lt EXCEPT !.pc = "done"]
    /\ UNCHANGED <<manual_block, blocked_file, last_op, classifyLocals,
                   guardFrame>>

\* lines 156-158: the exception is logged; model = None is assigned
LoadExcept ==
    /\ lt.pc = "except"
    /\ model' = NoModel
    /\ load_state' = "failed"
    /\ lt' = [lt EXCEPT !.pc = "done"]
    /\ UNCHANGED <<manual_block, blocked_file, last_op, classifyLocals,
                   model_lock, guardFrame>>

\* load_and_train has returned
LoadReturn ==
    /\ lt.pc = "done"
    /\ lt' = IdleLoad
    /\ UNCHANGED <<defenderVars, model_lock, guardFrame>>

\* line 190: classify_domain enters `with model_lock`
ClassifyLock ==
    /\ c_pc = "read_model"
    /\ model_lock = "free"
    /\ model_lock' = "classify_domain"
    /\ c_pc' = "locked"
    /\ UNCHANGED <<defenderGlobals, c_arg, c_domain, c_clf, c_pred, c_result,
                   c_block_seen, c_model_none, c_fault, lt, guardFrame>>

\* lines 191-194 and the end of the with block: the model is read
ClassifyReadLocked ==
    /\ c_pc = "locked"
    /\ c_model_none' = (model = NoModel)
    /\ IF model = NoModel
       THEN /\ c_result' = <<NOT_DGA, Zero, "fallback_no_model">>
            /\ c_clf' = c_clf
            /\ c_pc' = "done"
       ELSE /\ c_clf' = model
            /\ c_result' = c_result
            /\ c_pc' = "predict"
    /\ model_lock' = "free"
    /\ UNCHANGED <<defenderGlobals, c_arg, c_domain, c_pred,
                   c_block_seen, c_fault, lt, guardFrame>>

(***************************************************************************)
(* The entry points of the three processes                                 *)
(***************************************************************************)
entryFrame == <<serviceVars, victimVars, fx, health, model_lock, lt>>

\* attacker lines 183-198: app.run raises (the port is taken, say); the
\* finally block of main sets the stop event, and the except clause of the
\* entry point logs the failure and exits with 1
AttackerMainRaises ==
    /\ entry["attacker_v2"].pc = "main"
    /\ stop_event' = TRUE
    /\ entry' = [entry EXCEPT !["attacker_v2"] = CaughtExit]
    /\ UNCHANGED <<minute, rot_pc, rotLocals, current_labels, current_active,
                   state_lock, last_published, handlerVars>>
    /\ UNCHANGED <<defenderVars, entryFrame>>

\* defender lines 515-517: load_and_train(CSV_PATH), which catches its own
\* failures
DefenderMainLoad(csv) ==
    /\ entry["defender_v2"].pc = "main"
    /\ model' = TrainedModel(csv)
    /\ load_state' = IF csv.kind = "ok" THEN "trained" ELSE "failed"
    /\ entry' = [entry EXCEPT !["defender_v2"].pc = "persist"]
    /\ UNCHANGED <<manual_block, blocked_file, last_op, classifyLocals>>
    /\ UNCHANGED <<attackerVars, entryFrame>>

\* defender line 519: persist_blocked(), which catches its own failures
DefenderMainPersist ==
    /\ entry["defender_v2"].pc = "persist"
    /\ blocked_file' \in PersistBlocked(manual_block, blocked_file)
    /\ entry' = [entry EXCEPT !["defender_v2"].pc = "queries"]
    /\ UNCHANGED <<manual_block, model, last_op, load_state, classifyLocals>>
    /\ UNCHANGED <<attackerVars, entryFrame>>

\* defender lines 521-523: queries.json is there or is created, or open()
\* raises; no except clause is around it
DefenderMainQueries ==
    /\ entry["defender_v2"].pc = "queries"
    /\ \/ entry' = [entry EXCEPT !["defender_v2"].pc = "serve"]
       \/ entry' = [entry EXCEPT !["defender_v2"] = UncaughtExit]
    /\ UNCHANGED <<attackerVars, defenderVars, entryFrame>>

\* defender line 525: app.run raises; no except clause is around it
DefenderMainRaises ==
    /\ entry["defender_v2"].pc = "serve"
    /\ entry' = [entry EXCEPT !["defender_v2"] = UncaughtExit]
    /\ UNCHANGED <<attackerVars, defenderVars, entryFrame>>

\* every process is inside its main code
AllRunning == entry = [p \in Processes |-> Running]

\* the calls and processes followed on their own, before they start
ExtraCallsIdle ==
    /\ fx = IdleExtract
    /\ health = IdleHealth
    /\ model_lock = "free"
    /\ lt = IdleLoad

ExtraIdle == ExtraCallsIdle /\ AllRunning

(***************************************************************************)
(* Specification of the attacker                                           *)
(***************************************************************************)
\* the attacker before it starts
AttackerIdle ==
    /\ minute = 0
    /\ stop_event = FALSE
    /\ rot_pc = "loop"
    /\ labels = <<>>
    /\ active = {}
    /\ set_index = 0
    /\ slept = 0
    /\ current_labels = <<>>
    /\ current_active = {}
    /\ state_lock = "free"
    /\ last_published = InitialPair
    /\ h_pc = "idle"
    /\ requested_domain = <<>>
    /\ h_label = <<>>
    /\ labels_snapshot = <<>>
    /\ active_snapshot = {}
    /\ response = NoResponse
    /\ log_kind = "none"
    /\ h_seen = InitialPair

AttackerInit ==
    /\ AttackerIdle
    /\ DefenderIdle
    /\ BlockersIdle
    /\ ChecksIdle
    /\ ExtraIdle
    /\ VictimIdle

AttackerNext ==
    \/ RotGenerate
    \/ RotExit
    \/ RotAcquire
    \/ RotClearLabels
    \/ RotExtendLabels
    \/ RotClearActive
    \/ RotUpdateActive
    \/ RotWait
    \/ StopSignal
    \/ ClockTick
    \/ \E req \in RequestInputs : HReceive(req[1], req[2])
    \/ HAcquire
    \/ HSnapLabels
    \/ HSnapActive
    \/ HDecide
    \/ HReturn

SpecAttacker == AttackerInit /\ [][AttackerNext]_vars

(***************************************************************************)
(* Specification of the defender                                           *)
(***************************************************************************)
\* lines 49-56, 161 and 517-519: the block list is loaded from blocked.json
\* and written back, the model is trained from the CSV
DefenderStarted(blockLists, csvs) ==
    /\ manual_block \in blockLists
    /\ blocked_file = JsonFile(SortedList(manual_block))
    /\ \E csv \in csvs :
          /\ model = TrainedModel(csv)
          /\ load_state = IF csv.kind = "ok" THEN "trained" ELSE "failed"
    /\ last_op = NoOps
    /\ c_pc = "idle"
    /\ c_arg = <<>>
    /\ c_domain = <<>>
    /\ c_clf = NoModel
    /\ c_pred = NumClass(0)
    /\ c_result = NoResult
    /\ c_block_seen = {}
    /\ c_model_none = FALSE
    /\ c_fault = "none"

DefenderInit ==
    /\ DefenderStarted(SUBSET BlockableDomains, CsvInputs)
    /\ BlockersIdle
    /\ ChecksIdle
    /\ ExtraIdle
    /\ AttackerIdle
    /\ VictimIdle

DefenderNext ==
    \/ \E d \in DefenderDomains : ClassifyCheckBlock(d)
    \/ ClassifyReadModel
    \/ ClassifyPredict
    \/ ClassifyReturn
    \/ \E d \in DefenderDomains : api_block(d)
    \/ \E d \in DefenderDomains : api_unblock(d)
    \/ \E csv \in CsvInputs : load_and_train(csv)

SpecDefender == DefenderInit /\ [][DefenderNext]_vars

(***************************************************************************)
(* Specification of the block-list handlers                                *)
(***************************************************************************)
\* the CSV of the defender is missing
NoCsv == {csv \in CsvInputs : csv.kind = "missing"}

BlockListInit ==
    /\ DefenderStarted(SUBSET BlockableDomains, NoCsv)
    /\ BlockersIdle
    /\ ChecksIdle
    /\ ExtraIdle
    /\ AttackerIdle
    /\ VictimIdle

BlockListNext ==
    \/ \E t \in BlockHandlers, payload \in BlockPayloads : BlockAdd(t, payload)
    \/ \E t \in BlockHandlers, payload \in BlockPayloads :
          UnblockRemove(t, payload)
    \/ \E t \in BlockHandlers : PersistOpen(t)
    \/ \E t \in BlockHandlers : PersistDump(t)
    \/ \E t \in BlockHandlers : PersistClose(t)
    \/ \E t \in BlockHandlers : BlockReturn(t)

SpecBlockList == BlockListInit /\ [][BlockListNext]_vars

(***************************************************************************)
(* Specification of the query log                                          *)
(***************************************************************************)
\* one of the two domains of CheckPayloads is blocked
QueriesInit ==
    /\ DefenderStarted({{<<"e","v",".","i","o">>}}, NoCsv)
    /\ BlockersIdle
    /\ ChecksIdle
    /\ ExtraIdle
    /\ AttackerIdle
    /\ VictimIdle

QueriesNext ==
    \/ \E t \in CheckHandlers, payload \in CheckPayloads :
          CheckReceive(t, payload)
    \/ \E t \in CheckHandlers : CheckAcquire(t)
    \/ \E t \in CheckHandlers : CheckAppend(t)
    \/ \E t \in CheckHandlers : CheckTrim(t)
    \/ \E t \in CheckHandlers : PersistRead(t)
    \/ \E t \in CheckHandlers : PersistWrite(t)
    \/ \E t \in CheckHandlers : CheckReturn(t)
    \/ api_queries

SpecQueries == QueriesInit /\ [][QueriesNext]_vars

(***************************************************************************)
(* Specification of the victim                                             *)
(***************************************************************************)
\* the CSV of the defender is missing, or holds numeric classes and the
\* features of extract_features_from_domain
VictimCsvs ==
    {csv \in CsvInputs :
        \/ csv.kind = "missing"
        \/ /\ csv.kind = "ok"
           /\ csv.n_features = FeatureCount
           /\ NumClass(0) \in csv.classes}

\* blocked.json of the defender is empty, or holds a domain the user types
VictimBlockLists == {{}, {<<"e","v",".","i","o">>}}

VictimInit ==
    /\ VictimIdle
    /\ DefenderStarted(VictimBlockLists, VictimCsvs)
    /\ BlockersIdle
    /\ ChecksIdle
    /\ ExtraIdle
    /\ AttackerIdle

VictimNext ==
    \/ VGenerate
    \/ VExit
    \/ VFor
    \/ VHandled
    \/ VWait
    \/ VClockTick
    \/ \E line \in UserInputs : InteractiveInput(line)
    \/ InteractiveHandled
    \/ InteractiveEnd
    \/ HdSend
    \/ HdAct
    \/ HdConnect

SpecVictim == VictimInit /\ [][VictimNext]_vars

(***************************************************************************)
(* Specification of feature extraction                                     *)
(***************************************************************************)
\* nothing but extract_features_from_domain runs
FeaturesInit ==
    /\ AttackerIdle
    /\ DefenderStarted({{}}, NoCsv)
    /\ BlockersIdle
    /\ ChecksIdle
    /\ ExtraIdle
    /\ VictimIdle

FeaturesNext ==
    \/ \E d \in FeatureDomains : ExtractCall(d)
    \/ ExtractReturn

SpecFeatures == FeaturesInit /\ [][FeaturesNext]_vars

(***************************************************************************)
(* Specification of the attacker's rotation and /health                    *)
(***************************************************************************)
HealthNext ==
    \/ RotGenerate
    \/ RotExit
    \/ RotAcquire
    \/ RotClearLabels
    \/ RotExtendLabels
    \/ RotClearActive
    \/ RotUpdateActive
    \/ RotWait
    \/ StopSignal
    \/ ClockTick
    \/ HealthAcquire
    \/ HealthSnapActive
    \/ HealthCount
    \/ HealthReturn

SpecHealth == AttackerInit /\ [][HealthNext]_vars

(***************************************************************************)
(* Specification of the defender's guards                                  *)
(***************************************************************************)
\* the CSV is missing, cannot be read, or holds numeric classes and the
\* features of extract_features_from_domain
GuardCsvs ==
    {csv \in CsvInputs :
        \/ csv.kind \in {"missing", "unreadable"}
        \/ /\ csv.kind = "ok"
           /\ csv.n_features = FeatureCount
           /\ NumClass(0) \in csv.classes}

\* the domain the requests of this specification are about
GuardDomain == <<"e","v",".","i","o">>

GuardsInit ==
    /\ DefenderStarted({{}, {GuardDomain}}, NoCsv)
    /\ BlockersIdle
    /\ ChecksIdle
    /\ ExtraIdle
    /\ AttackerIdle
    /\ VictimIdle

GuardsNext ==
    \/ \E csv \in GuardCsvs : LoadBegin(csv)
    \/ LoadMissing
    \/ LoadFit
    \/ LoadAcquire
    \/ LoadStore
    \/ LoadExcept
    \/ LoadReturn
    \/ ClassifyCheckBlock(GuardDomain)
    \/ ClassifyLock
    \/ ClassifyReadLocked
    \/ ClassifyPredict
    \/ ClassifyReturn
    \/ api_block(GuardDomain)
    \/ api_unblock(GuardDomain)

SpecGuards == GuardsInit /\ [][GuardsNext]_vars

(***************************************************************************)
(* Specification of the victim's schedule: the victim with the time its    *)
(* requests take                                                           *)
(***************************************************************************)
ScheduleInit ==
    /\ VictimIdle
    /\ DefenderStarted({{}}, NoCsv)
    /\ BlockersIdle
    /\ ChecksIdle
    /\ ExtraIdle
    /\ AttackerIdle

ScheduleNext ==
    \/ VGenerate
    \/ VExit
    \/ VFor
    \/ VHandled
    \/ VWait
    \/ VClockTick
    \/ \E line \in UserInputs : InteractiveInput(line)
    \/ InteractiveHandled
    \/ InteractiveEnd
    \/ HdSend
    \/ HdAct
    \/ HdConnect
    \/ HdSlow

SpecSchedule == ScheduleInit /\ [][ScheduleNext]_vars

(***************************************************************************)
(* Specification of the processes: the three run in containers of their    *)
(* own and share no state, so each is followed alone from its start.       *)
(***************************************************************************)
\* process p is inside its main code
Alive(p) == entry[p].pc = "main"

ProcessesInit ==
    /\ AttackerIdle
    /\ VictimIdle
    /\ DefenderStarted({{}}, NoCsv)
    /\ BlockersIdle
    /\ ChecksIdle
    /\ ExtraCallsIdle
    /\ \E p \in Processes :
          entry = [q \in Processes |-> IF q = p THEN Running ELSE NotStarted]

AttackerLoop ==
    /\ Alive("attacker_v2")
    /\ \/ RotGenerate
       \/ RotExit
       \/ RotAcquire
       \/ RotClearLabels
       \/ RotExtendLabels
       \/ RotClearActive
       \/ RotUpdateActive
       \/ RotWait
       \/ ClockTick

AttackerStops == Alive("attacker_v2") /\ StopSignal

VictimLoop ==
    /\ Alive("victim_v2")
    /\ \/ VGenerate
       \/ VExit
       \/ VFor
       \/ VHandled
       \/ VWait
       \/ VClockTick
       \/ HdSend
       \/ HdAct
       \/ HdConnect

VictimInput ==
    /\ Alive("victim_v2")
    /\ \/ \E line \in UserInputs : InteractiveInput(line)
       \/ InteractiveHandled
       \/ InteractiveEnd

ProcessesNext ==
    \/ AttackerLoop
    \/ AttackerStops
    \/ AttackerMainRaises
    \/ VictimLoop
    \/ VictimInput
    \/ \E csv \in CsvInputs : DefenderMainLoad(csv)
    \/ DefenderMainPersist
    \/ DefenderMainQueries
    \/ DefenderMainRaises

SpecProcesses == ProcessesInit /\ [][ProcessesNext]_vars

(***************************************************************************)
(* Claims about the classifier                                             *)
(***************************************************************************)
\* C7: a call of classify_domain with a domain that is in manual_block when
\* the call tests it returns exactly (DGA, 1.0, manual_block), whatever the
\* model is.
C7_ManualBlockFirst ==
    c_pc = "done" /\ c_arg \in c_block_seen =>
        c_result = <<DGA, One, "manual_block">>

\* a blocked domain was classified while a usable model was loaded
C7_Witness ==
    /\ c_pc = "done"
    /\ c_arg \in c_block_seen
    /\ model.loaded
    /\ model.n_features = FeatureCount
    /\ NumClass(0) \in model.classes

\* C8 as stated: with model None, the call returns (NOT_DGA, 0.0,
\* fallback_no_model) for every domain that is not in manual_block.
C8_AsStated ==
    c_pc = "done" /\ c_model_none /\ c_arg \notin c_block_seen =>
        c_result = <<NOT_DGA, Zero, "fallback_no_model">>

\* C8 amended: with model None, the call returns (NOT_DGA, 0.0,
\* fallback_no_model) for every domain whose stripped, lower-cased form is
\* not in manual_block.
C8_FallbackWithoutModel ==
    c_pc = "done" /\ c_model_none
                  /\ NormalizeDomain(c_arg) \notin c_block_seen =>
        c_result = <<NOT_DGA, Zero, "fallback_no_model">>

\* a domain that is not blocked was classified without a model, while
\* another domain was blocked
C8_Witness ==
    /\ c_pc = "done"
    /\ c_model_none
    /\ c_block_seen # {}
    /\ NormalizeDomain(c_arg) \notin c_block_seen
    /\ c_result[3] = "fallback_no_model"

\* 0 <= confidence <= 1
InUnitInterval(c) == 0 <= c[1] /\ c[1] <= c[2] /\ c[2] > 0

\* C9 as stated: every returned tuple has a verdict among DGA, NOT_DGA and
\* UNKNOWN, a confidence in [0,1] and a source among model, manual_block,
\* fallback_no_model and error.
C9_AsStated ==
    c_pc = "done" =>
        /\ c_result[1] \in {DGA, NOT_DGA, UNKNOWN}
        /\ InUnitInterval(c_result[2])
        /\ c_result[3] \in {"model", "manual_block", "fallback_no_model",
                            "error"}

\* C10: no call ends by raising; a call in which predict raised returns
\* (UNKNOWN, 0.0, error), a call in which only predict_proba failed returns
\* the verdict of the predicted class with confidence 0.0, and whatever is
\* returned is a 3-tuple.
C10_NoExceptionEscapes ==
    /\ c_pc # "raised"
    /\ c_pc = "done" =>
        /\ Len(c_result) = 3
        /\ c_fault = "predict" => c_result = <<UNKNOWN, Zero, "error">>
        /\ c_fault = "predict_proba" =>
               c_result = <<VerdictOfClass(c_pred), Zero, "model">>

\* predict raised in a call
C10_Witness ==
    /\ c_pc = "done"
    /\ c_fault = "predict"
    /\ c_clf.loaded

C19_FailedLoadFallsBack ==
    [][/\ load_state = "failed" => model = NoModel
       /\ load_state' = "failed" => model' = NoModel
       /\ c_pc = "read_model" /\ load_state = "failed" /\ c_pc' # c_pc =>
              /\ c_pc' = "done"
              /\ c_result' = <<NOT_DGA, Zero, "fallback_no_model">>]_vars

\* a call returned the fallback after a failed load
C19_Witness ==
    /\ load_state = "failed"
    /\ c_pc = "done"
    /\ c_model_none
    /\ c_result = <<NOT_DGA, Zero, "fallback_no_model">>

(***************************************************************************)
(* Claims about the attacker                                               *)
(***************************************************************************)
\* C1: whenever rotate_sets_loop does not hold state_lock (initially and
\* after every published rotation), current_active is a subset of the labels
\* of current_labels and has min(ACTIVE_PER_SET, |current_labels|) elements,
\* so it holds no label of an earlier set that the current set lacks.
C1_ActiveSubsetOfLabels ==
    state_lock # "rotate_sets_loop" =>
        /\ current_active \subseteq Range(current_labels)
        /\ Cardinality(current_active)
               = Min(ACTIVE_PER_SET, Len(current_labels))

\* a second rotation has been published, in another minute than the labels
\* the rotation before it drew
C1_Witness ==
    /\ state_lock = "free"
    /\ rot_pc = "wait"
    /\ set_index = MaxSets
    /\ current_labels = generate_set(MaxMinute)
    /\ Cardinality(current_active) = ACTIVE_PER_SET

\* C2: the pair of snapshots a catch_all call took is the pair that was last
\* published when the call took state_lock: the pair of one rotation, or
\* the initial empty pair, never a mix and never a cleared or half-filled
\* list.
C2_SnapshotIsOnePublishedPair ==
    h_pc \in {"decide", "done"} =>
        /\ <<labels_snapshot, active_snapshot>> = h_seen
        /\ h_seen = InitialPair
           \/ /\ Len(h_seen[1]) = SET_SIZE
              /\ h_seen[2] \subseteq Range(h_seen[1])

\* a call holds the pair of one rotation while the next rotation has
\* already been published
C2_Witness ==
    /\ h_pc = "done"
    /\ labels_snapshot # <<>>
    /\ last_published # h_seen
    /\ <<current_labels, current_active>> = last_published

\* the response and log class of a domain under the snapshots of the call
Outcome(domain) ==
    Decide(domain, domain_label_from_domain(domain), labels_snapshot,
           active_snapshot)

Greeting(domain) == [status |-> 200, body |-> HiFrom \o domain]

\* C3: a request whose resolved domain is in ALLOWED_DOMAINS is answered 200
\* "hi from <domain>" whatever the snapshots hold, and would be if the label
\* of the domain were in the label set or in the active set as well.
C3_AllowedAlwaysGreeted ==
    h_pc = "done" /\ requested_domain \in ALLOWED_DOMAINS =>
        /\ response = Greeting(requested_domain)
        /\ \A extraActive \in SUBSET {h_label} :
               Decide(requested_domain, h_label,
                      labels_snapshot \o <<h_label>>,
                      active_snapshot \cup extraActive).response
                   = Greeting(requested_domain)

\* an allow-listed request was answered while a label set was published
C3_Witness ==
    /\ h_pc = "done"
    /\ requested_domain \in ALLOWED_DOMAINS
    /\ labels_snapshot # <<>>
    /\ response.status = 200

\* the label as the claim words it: the text before the last '.', or the
\* whole string when there is no '.'
TextBeforeLastDot(domain) ==
    IF Contains(domain, ".") THEN RSplitHead(domain, ".") ELSE domain

C2Response == [status |-> 200, body |-> C2Connected]

\* C4 as stated: for a domain not allow-listed, the answer is 200 "C2 server
\* connected" iff the text before the last '.' of the requested domain is in
\* the label snapshot and in the active snapshot.
C4_AsStated ==
    h_pc = "done" /\ requested_domain \notin ALLOWED_DOMAINS =>
        (response = C2Response
            <=> /\ TextBeforeLastDot(requested_domain) \in Range(labels_snapshot)
                /\ TextBeforeLastDot(requested_domain) \in active_snapshot)

\* C4 amended: the label is taken from the requested domain with its
\* surrounding whitespace removed.
C4_C2IffStrippedLabelActive ==
    h_pc = "done" /\ requested_domain \notin ALLOWED_DOMAINS =>
        (response = C2Response
            <=> /\ TextBeforeLastDot(StrStrip(requested_domain))
                       \in Range(labels_snapshot)
                /\ TextBeforeLastDot(StrStrip(requested_domain))
                       \in active_snapshot)

\* a domain with leading whitespace was answered "C2 server connected"
C4_Witness ==
    /\ h_pc = "done"
    /\ requested_domain \notin ALLOWED_DOMAINS
    /\ requested_domain # <<>>
    /\ requested_domain[1] \in Whitespace
    /\ response = C2Response

\* C5: a domain not allow-listed whose label is not active gets 404 with an
\* empty body in both cases; the log says DROPPED exactly when the label is
\* in the label snapshot and IGNORED exactly when it is not.
C5_SameWireResponseDistinctLog ==
    h_pc = "done" /\ requested_domain \notin ALLOWED_DOMAINS
                  /\ h_label \notin active_snapshot =>
        /\ response = [status |-> 404, body |-> <<>>]
        /\ log_kind = "DROPPED" <=> h_label \in Range(labels_snapshot)
        /\ log_kind = "IGNORED" <=> h_label \notin Range(labels_snapshot)

\* a label of the set that is not active was dropped
C5_Witness ==
    /\ h_pc = "done"
    /\ requested_domain \notin ALLOWED_DOMAINS
    /\ h_label \in Range(labels_snapshot)
    /\ h_label \notin active_snapshot
    /\ log_kind = "DROPPED"
    /\ response.status = 404

\* the suffixes C6 is tried on: a dot and a dot-free top-level name, from
\* TLD_LIST or not
Suffixes == Range(TLD_LIST) \cup {<<".","i","o">>}

\* domain ends with suffix
EndsWith(domain, suffix) ==
    /\ Len(suffix) <= Len(domain)
    /\ SubSeq(domain, Len(domain) - Len(suffix) + 1, Len(domain)) = suffix

\* domain without its last n characters
DropLast(domain, n) == SubSeq(domain, 1, Len(domain) - n)

C11_ConnectIffNotDga ==
    /\ hd.pc = "raised" => ~hd.connected
    /\ hd.pc = "returned" =>
        /\ hd.connected <=> hd.verdict = NOT_DGA
        /\ hd.connected <=> /\ hd.reply.kind = "json_object"
                            /\ hd.reply.has_verdict
                            /\ hd.reply.verdict = NOT_DGA
        /\ hd.reply.kind \in {"timeout", "connection_error"} =>
               ~hd.connected
        /\ hd.reply.source = "fallback_no_model" => hd.connected

\* a generated domain was answered from the no-model fallback and the
\* connection was attempted
C11_Witness ==
    /\ hd.pc = "returned"
    /\ hd.caller = "dga_generation_loop"
    /\ hd.reply.source = "fallback_no_model"
    /\ hd.connected
    /\ model = NoModel

\* C12 as stated: whatever the request to the classifier gives,
\* send_to_defender returns a verdict and does not raise; every outcome
\* other than a JSON object with a "verdict" gives UNKNOWN.
C12_AsStated ==
    /\ hd.pc # "raised"
    /\ hd.pc \in {"act", "connect", "returned"} =>
        /\ hd.verdict # <<>>
        /\ ~(hd.reply.kind = "json_object" /\ hd.reply.has_verdict) =>
               hd.verdict = UNKNOWN

\* the index limit of the searches below
IndexLimit == 3 * SET_SIZE

\* the first index at which gen gives label in the minute timestamp
FirstIndex(label, timestamp, gen(_, _)) ==
    CHOOSE i \in 0..IndexLimit :
        /\ gen(timestamp, i) = label
        /\ \A j \in 0..(i - 1) : gen(timestamp, j) # label

\* list holds SET_SIZE distinct labels of gen, in the order of their first
\* indices, and every index before the last of these gave a label of list
IsDedupPrefix(list, timestamp, gen(_, _)) ==
    /\ Len(list) = SET_SIZE
    /\ \A p \in 1..Len(list) :
          \E i \in 0..IndexLimit : gen(timestamp, i) = list[p]
    /\ \A p, q \in 1..Len(list) :
          p < q => /\ list[p] # list[q]
                   /\ FirstIndex(list[p], timestamp, gen)
                          < FirstIndex(list[q], timestamp, gen)
    /\ \A i \in 0..IndexLimit :
          i < FirstIndex(list[Len(list)], timestamp, gen) =>
              gen(timestamp, i) \in Range(list)

\* generate_set has returned to dga_generation_loop and no domain of the
\* set has been handled yet
SetGenerated == v_pc = "for" /\ v_next = 1

\* the labels of the domains the victim generated
VictimLabels ==
    [i \in 1..Len(v_domains) |-> TextBeforeLastDot(v_domains[i])]

\* C17: when the victim's generate_set has returned, its set and the set
\* the attacker generates
\* for the same minute hold exactly SET_SIZE pairwise distinct labels, in
\* increasing order of the first index that gave each, with no index
\* skipped before the last, also when two indices give the same label.
C17_SetIsDedupPrefix ==
    SetGenerated =>
        /\ IsDedupPrefix(VictimLabels, TimestampStr(v_set_time),
                         victim_generate_domain_label)
        /\ IsDedupPrefix(generate_set(TimestampStr(v_set_time)),
                         TimestampStr(v_set_time), generate_domain_label)

\* a set was generated in a minute in which two of the indices tried give
\* the same label
C17_Witness ==
    /\ SetGenerated
    /\ \E i, j \in 0..IndexLimit :
          /\ i < j
          /\ j < FirstIndex(VictimLabels[SET_SIZE], TimestampStr(v_set_time),
                            victim_generate_domain_label)
          /\ victim_generate_domain_label(TimestampStr(v_set_time), i)
                 = victim_generate_domain_label(TimestampStr(v_set_time), j)

\* two times of the same minute
SameMinute(t1, t2) == t1 \div SecondsPerMinute = t2 \div SecondsPerMinute

\* C18: when the victim's generate_set has returned, for every time in the
\* minute of the set, a second call of
\* the victim's generate_set gives the same domains, and the attacker's
\* generate_set gives the victim's domains with their suffixes removed, in
\* the same order.
C18_SameMinuteSameLabels ==
    SetGenerated =>
        \A t \in 0..MaxTime :
            SameMinute(t, v_set_time) =>
                /\ victim_generate_set(t) = v_domains
                /\ generate_set(TimestampStr(t)) = VictimLabels

\* the clock has moved on within the minute of the victim's set
C18_Witness ==
    /\ SetGenerated
    /\ v_set_index = 1
    /\ v_now # v_set_time
    /\ SameMinute(v_now, v_set_time)

(***************************************************************************)
(* Claims about the block list and the query log                           *)
(***************************************************************************)
\* C14: a /api/block for a domain whose normal form is in manual_block
\* leaves manual_block as it is and is answered ok; a /api/unblock for a
\* domain whose normal form is not in manual_block leaves it as it is and
\* is answered 404 not_found.
C14_RedundantOpsChangeNothing ==
    [][\A t \in BlockHandlers :
          /\ blockers[t].pc = "idle" /\ blockers'[t].redundant =>
                /\ manual_block' = manual_block
                /\ blockers'[t].op = "unblock" =>
                       /\ blockers'[t].pc = "done"
                       /\ blockers'[t].response
                              = NotFound(NormalizeDomain(blockers'[t].arg))
          /\ blockers'[t].pc = "done" /\ blockers'[t].op = "block"
                                      /\ blockers'[t].redundant =>
                blockers'[t].response
                    = Ok(NormalizeDomain(blockers'[t].arg))]_vars

\* a block of a blocked domain, sent in another spelling, was answered
C14_Witness ==
    \E t \in BlockHandlers :
        /\ blockers[t].pc = "done"
        /\ blockers[t].op = "block"
        /\ blockers[t].redundant
        /\ blockers[t].arg # blockers[t].domain
        /\ blockers[t].response.status = "ok"

\* C20 as stated: when no block-list request is in progress, blocked.json
\* loads to manual_block.
C20_AsStated ==
    (\A t \in BlockHandlers : blockers[t].pc = "idle") =>
        LoadBlocked(blocked_file) = manual_block

\* C15: outside the with block of recent_lock, recent_queries is the last
\* min(n, MAX_RECENT) of the n records appended so far, in the order they
\* were appended; every request has its record in that history once, from
\* its append on; and what /api/queries returned is the reverse of the list
\* at that time.
C15_RecentQueriesBounded ==
    /\ recent_lock = "free" =>
          /\ Len(recent_queries) = Min(Len(appended), MAX_RECENT)
          /\ recent_queries = LastN(appended, MAX_RECENT)
    /\ \A t \in CheckHandlers :
          Cardinality({i \in 1..Len(appended) :
                          appended[i] = checks[t].record})
              = IF checks[t].pc \in {"trim", "persist_read", "persist_write"}
                   \/ (checks[t].pc = "done" /\ checks[t].response.code = 200)
                THEN 1 ELSE 0
    /\ listing.asked =>
          listing.items
              = Reversed(LastN(SubSeq(appended, 1, listing.at), MAX_RECENT))

\* /api/queries answered after more than MAX_RECENT requests
C15_Witness ==
    /\ listing.asked
    /\ listing.at > MAX_RECENT
    /\ Len(listing.items) = MAX_RECENT
    /\ listing.items[1] = appended[Len(appended)]
    /\ \A t \in CheckHandlers : checks[t].pc = "idle"

\* C16 as stated: when the n requests received have completed, queries.json
\* holds the most recent min(n, PersistedCap) records, each once.
C16_AsStated ==
    (\A t \in CheckHandlers : checks[t].pc = "idle") =>
        /\ Len(queries_file) = Min(Len(appended), PersistedCap)
        /\ Range(queries_file) = Range(LastN(appended, PersistedCap))

(***************************************************************************)
(* Claims about feature extraction                                         *)
(***************************************************************************)
AbcCom == <<"a","b","c","1","2","3",".","c","o","m">>

\* the lower-cased text before the last '.' of the stripped domain
LabelOf(domain) == TextBeforeLastDot(StrLower(StrStrip(domain)))

\* C21: the list extract_features_from_domain returns for 'abc123.com' is
\* length 6, digits 3, letters 3, unique_chars 6, vowels 1, consonants 2,
\* digit_ratio 1/2 and the entropy of six characters of probability 1/6;
\* two calls for domains with the same lower-cased label return the same
\* list, whatever the suffix, the letter case and the surrounding
\* whitespace; for an empty label the length is 0 and the entropy is the
\* 0.0 of line 98.
C21_FeaturesOfLabel ==
    fx.pc = "done" =>
        /\ fx.arg = AbcCom =>
               fx.feats = <<6, 3, 3, 6, 1, 2, <<1, 2>>, (<<1, 6>> :> 6)>>
        /\ fx.prev_feats # NoFeatures /\ LabelOf(fx.arg) = LabelOf(fx.prev_arg)
               => fx.feats = fx.prev_feats
        /\ LabelOf(fx.arg) = <<>> =>
               /\ fx.feats[1] = 0
               /\ fx.feats[7] = Zero
               /\ fx.feats[8] = ZeroEntropy

\* 'abc123.net' and then ' ABC123.COM\t' were passed, with the list of the
\* claim for both
C21_Witness ==
    /\ fx.pc = "done"
    /\ fx.arg = <<" ">> \o StrUpper(AbcCom) \o <<"\t">>
    /\ fx.prev_arg = <<"a","b","c","1","2","3",".","n","e","t">>
    /\ fx.feats = <<6, 3, 3, 6, 1, 2, <<1, 2>>, (<<1, 6>> :> 6)>>
    /\ fx.prev_feats = fx.feats

(***************************************************************************)
(* Claims about the attacker's /health                                     *)
(***************************************************************************)
\* C22 as stated: the active_sample and the labels_count of a /health
\* response are those of the rotation that was published when the handler
\* held state_lock.
C22_AsStated ==
    health.pc = "done" =>
        /\ health.active = health.seen[2]
        /\ health.labels_count = Len(health.seen[1])

(***************************************************************************)
(* Claims about the victim's schedule                                      *)
(***************************************************************************)
\* C23 as stated: a set is generated no later than the rotation interval
\* (2 * DELAY_SECONDS half seconds) after the generation of the set before
\* it, however long the handling of that set's domains took.
C23_AsStated ==
    [][v_pc = "loop" /\ v_pc' = "for" => v_elapsed <= 2 * DELAY_SECONDS]_vars

(***************************************************************************)
(* Claims about the defender's guards                                      *)
(***************************************************************************)
\* C24 as stated: a step that changes model is made by load_and_train while
\* it holds model_lock, and a step that changes manual_block is made while
\* a guard is held.
C24_AsStated ==
    [][/\ model' # model => model_lock = "load_and_train"
       /\ manual_block' # manual_block => model_lock # "free"]_vars

(***************************************************************************)
(* Claims about the rotation loops                                         *)
(***************************************************************************)
\* C25: in rotate_sets_loop and in dga_generation_loop a set after the first
\* is generated only when the wait before it counted 2 * DELAY_SECONDS polls
\* of 0.5 s and the stop event is unset; the wait is left only with the full
\* count or with the stop event set, and with the stop event set the loop
\* test leads to the exit and to no generation.
C25_FullDelayOrStop ==
    [][/\ rot_pc = "loop" /\ rot_pc' = "acquire" =>
              /\ ~stop_event
              /\ set_index = 0 \/ slept = 2 * DELAY_SECONDS
       /\ rot_pc = "wait" /\ rot_pc' # "wait" =>
              /\ rot_pc' = "loop"
              /\ slept = 2 * DELAY_SECONDS \/ stop_event
       /\ rot_pc = "loop" /\ stop_event => rot_pc' \in {"loop", "stopped"}
       /\ v_pc = "loop" /\ v_pc' = "for" =>
              /\ ~v_stop
              /\ v_set_index = 0 \/ v_slept = 2 * DELAY_SECONDS
       /\ v_pc = "wait" /\ v_pc' # "wait" =>
              /\ v_pc' \in {"loop", "exited"}
              /\ v_pc' = "loop" => v_slept = 2 * DELAY_SECONDS \/ v_stop
       /\ v_pc = "loop" /\ v_stop => v_pc' \in {"loop", "stopped", "exited"}
      ]_vars

\* the attacker's second set is being published after a full wait
C25_Witness ==
    /\ rot_pc = "acquire"
    /\ set_index = 1
    /\ slept = 2 * DELAY_SECONDS
    /\ ~stop_event

\* the victim's second set has been generated after a full wait
C25_VictimRegenerated ==
    /\ v_pc = "for"
    /\ v_set_index = 1
    /\ v_slept = 2 * DELAY_SECONDS
    /\ ~v_stop

\* a wait was cut short by the stop event and the loop has exited
C25_StoppedInWait ==
    /\ rot_pc = "stopped"
    /\ set_index = 1
    /\ slept < 2 * DELAY_SECONDS

\* C26 as stated: a rotation loop has exited only with the stop event set.
C26_AsStated ==
    /\ rot_pc = "stopped" => stop_event
    /\ v_pc \in {"stopped", "crashed"} => v_stop

\* the loops under the scheduling of their threads: a thread that can take
\* its next step takes it
FairProcesses ==
    /\ SpecProcesses
    /\ WF_vars(Alive("attacker_v2") /\ RotWait)
    /\ WF_vars(Alive("attacker_v2") /\ RotExit)
    /\ WF_vars(Alive("victim_v2") /\ VWait)
    /\ WF_vars(Alive("victim_v2") /\ VExit)

\* the second half of C26: a stop event set during the wait ends the loop,
\* unless the process ends first
C26_StopEndsWait ==
    /\ (stop_event /\ rot_pc = "wait")
           ~> (rot_pc = "stopped" \/ ~Alive("attacker_v2"))
    /\ (v_stop /\ v_pc = "wait")
           ~> (v_pc = "stopped" \/ ~Alive("victim_v2"))

(***************************************************************************)
(* Claims about the entry points                                           *)
(***************************************************************************)
\* C27 as stated: in each of the three processes a failure that reached the
\* entry point was caught there and logged, and the exit status is not 0.
C27_AsStated ==
    \A p \in Processes :
        entry[p].pc = "failed" =>
            /\ entry[p].caught
            /\ entry[p].logged
            /\ entry[p].status # 0

====
